---- MODULE Spec2Model ----
(***************************************************************************)
(* Model of the asset-name resolution, loading cache and container        *)
(* decoding core of Purlovia (ue/loader.py, automate/ark.py,              *)
(* automate/modutils.py).                                                 *)
(*                                                                        *)
(* Text.  A Python str is modelled as a sequence of atoms.  An atom is    *)
(* either one of the characters the code inspects ("/", "\", ".", " ")    *)
(* or a run of other characters ("Content", "123", ...) that the code     *)
(* only ever compares, lower-cases or tests with isnumeric() as a whole.  *)
(***************************************************************************)
EXTENDS Integers, Sequences, FiniteSets, TLC

VARIABLES
    \* ---- the mod resolver (ModResolver and its three variants) ----
    resolver,   \* the variant: "ini", "managed" or "fixed"
    config,     \* what initialise() reads: the (id, name) pairs of mods.ini [ids],
                \* of the installed mods, or of the namesToIds argument
    official,   \* the (id, tag) pairs of the configured official mods (managed only)
    idToName,   \* mods_id_to_names / dataCache / idsToNames
    nameToId,   \* mods_names_to_ids / modNameToIds / namesToIds
    answer,     \* the last resolver query: [op, arg, ret]
    \* ---- name canonicalisation (AssetLoader.clean_asset_name) ----
    npc,        \* position of the canonicalisation run: "start", "once", "twice"
    rawName,    \* the raw asset name handed in
    clean1,     \* clean_asset_name(rawName)
    clean2,     \* clean_asset_name(clean1), or of relPath
    relPath,    \* convert_asset_name_to_path(clean1, partial=True), less the asset root
    \* ---- the loader (AssetLoader with a DictCacheManager) ----
    cache,      \* DictCacheManager.cache: canonical name -> UAsset
    created,    \* number of UAsset objects the loader has handed out
    last,       \* the last loader call: [op, arg, ret, err, file]; file is the
                \* file load_file_into_memory read during the call, <<>> if none
    \* ---- the container decoder (unpackModFile) ----
    optimize,   \* Python runs with -O: assert statements are not executed
    input,      \* what the source file was made from: [buffer, size, damage]
    stream,     \* f: the cells of the source file
    upos,       \* number of cells read from f
    token, sizeUnpackedChunk, sizeUnpacked,     \* the header fields
    sizeFound, chunkSizes,                      \* the descriptor loop
    chunkNo,    \* i: chunks decoded so far
    dst,        \* the bytes in the destination file, NoFile before open()
    upc,        \* position: "start", "table", "chunks", "done", "failed"
    uerr,       \* the exception a failed call ended with
    ucheck,     \* the assert that failed: "magic", "sum", "length", "nominal"
    \* ---- the key-value text parser (parseAcf) ----
    acfData,    \* data: the text handed in
    acfLines,   \* data.splitlines()
    acfLine,    \* number of lines the loop has taken
    acfHeap,    \* the dicts made by the call; acfHeap[1] is output
    currentSection,     \* current_section: the number of a dict in acfHeap
    sections,   \* the list of section names
    apc,        \* position: "run", "done" (output returned), "failed"
    aerr,       \* the exception a failed call ended with
    \* ---- the string reader (readUnrealString) ----
    rdata,      \* the bytes of the MemoryStream f
    rpos,       \* number of bytes read from f
    rret,       \* what the call returned
    rerr,       \* the exception a failed call ended with
    rpc,        \* position: "start", "done", "failed"
    \* ---- what callers see of loaded assets ----
    trail,      \* the assets a caller went through, following references
    defaults,   \* asset.default_export of each UAsset object: id -> export
    warnings    \* the asset names warnings.warn was called about, in order

resolverVars == <<resolver, config, official, idToName, nameToId>>
cleanVars == <<npc, rawName, clean1, clean2, relPath>>
loaderVars == <<cache, created, last>>
unpackVars == <<optimize, input, stream, upos, token, sizeUnpackedChunk, sizeUnpacked,
                sizeFound, chunkSizes, chunkNo, dst, upc, uerr, ucheck>>
acfVars == <<acfData, acfLines, acfLine, acfHeap, currentSection, sections, apc, aerr>>
readerVars == <<rdata, rpos, rret, rerr, rpc>>
graphVars == <<trail, defaults, warnings>>
sideVars == <<acfVars, readerVars, graphVars>>               \* what unpackModFile never touches
toolVars == <<unpackVars, sideVars>>    \* what the loader and the resolvers never touch
vars == <<resolverVars, answer, cleanVars, loaderVars, unpackVars, acfVars, readerVars,
          graphVars>>

-----------------------------------------------------------------------------
(* Bounds *)

MaxNameLen == 5     \* longest raw asset name, in atoms
MaxMods == 2        \* most (id, name) pairs a resolver is initialised from
MaxOfficial == 1    \* most official mods configured
MaxAssets == 2      \* most UAsset objects handed out by one loader
MaxBuf == 7         \* longest buffer packed into a container, and largest chunk size
MaxDamagedBuf == 3  \* longest buffer of a container that is then damaged
MaxAcfLines == 4    \* most lines of a key-value document
MaxStrLen == 3      \* most bytes after a length field

-----------------------------------------------------------------------------
(* Outcomes that are not values *)

\* Every outcome of a str-valued call is a sequence of atoms, so that outcomes
\* can be compared; the atoms below occur in no name.
None == <<"#None">>                     \* Python's None
KeyErr == <<"#KeyError">>               \* dict[key] on a missing key
TypeErr == <<"#TypeError">>             \* '/'.join over a list holding None
ModNotFound == <<"#ModNotFound">>       \* ue/loader.py ModNotFound
AssetNotFound == <<"#AssetNotFound">>   \* ue/loader.py AssetNotFound
AttributeErr == <<"#AttributeError">>   \* None.lower()
DeserialiseErr == <<"#DeserialiseError">>   \* raised by asset.deserialise()
LinkErr == <<"#LinkError">>                 \* raised by asset.link()
DefaultErr == <<"#DefaultExportError">>     \* raised reading default_export.klass.value
Errors == {KeyErr, TypeErr, ModNotFound, AssetNotFound, AttributeErr,
           DeserialiseErr, LinkErr, DefaultErr}

-----------------------------------------------------------------------------
(* str operations used by the code *)

SLASH == "/"
BSLASH == "\\"
DOT == "."
SPACE == " "

Digits == {"123", "999", "111"}
Whitespace == {SPACE}

\* Python evaluates an expression once and names its value: F applied to
\* the value of v
With(v, F(_)) == CHOOSE r \in {F(x) : x \in {v}} : TRUE

\* all sequences over S of length at most n
SeqsUpTo(S, n) == UNION {[1..k -> S] : k \in 0..n}

\* str.lower() on one atom
LowerAtom(a) ==
    CASE a = "Content" -> "content"
      [] a = "CONTENT" -> "content"
      [] a = "Game" -> "game"
      [] a = "Mods" -> "mods"
      [] a = "MODS" -> "mods"
      [] a = "MyMod" -> "mymod"
      [] a = "MYMOD" -> "mymod"
      [] a = "Other" -> "other"
      [] a = "Foo" -> "foo"
      [] a = ".UASSET" -> ".uasset"
      [] a = ".UMAP" -> ".umap"
      [] OTHER -> a

\* str.lower()
Lower(s) == [i \in 1..Len(s) |-> LowerAtom(s[i])]

\* str.isnumeric(): non-empty and every character numeric
IsNumeric(s) == Len(s) > 0 /\ \A i \in 1..Len(s) : s[i] \in Digits

\* `c in s`
Contains(s, c) == \E i \in 1..Len(s) : s[i] = c

\* s.index(c), 0-based as in Python; only used when c is in s
IndexOf(s, c) == (CHOOSE i \in 1..Len(s) : s[i] = c /\ \A j \in 1..(i - 1) : s[j] # c) - 1

\* s[:n]
Prefix(s, n) == SubSeq(s, 1, n)

\* str.lstrip(chars): the text from its first character outside chars on
LStrip(s, chars) ==
    LET keep == {i \in 1..Len(s) : s[i] \notin chars}
    IN  IF keep = {} THEN <<>>
        ELSE SubSeq(s, CHOOSE i \in keep : \A j \in keep : i <= j, Len(s))

\* str.rstrip(chars): the text up to its last character outside chars
RStrip(s, chars) ==
    LET keep == {i \in 1..Len(s) : s[i] \notin chars}
    IN  IF keep = {} THEN <<>>
        ELSE SubSeq(s, 1, CHOOSE i \in keep : \A j \in keep : j <= i)

\* str.strip(chars); str.strip() is Strip(s, Whitespace)
Strip(s, chars) == RStrip(LStrip(s, chars), chars)

\* str.replace(old, new) for single characters
Replace(s, old, new) == [i \in 1..Len(s) |-> IF s[i] = old THEN new ELSE s[i]]

\* str.split(sep): always at least one part, empty parts kept
RECURSIVE Split(_, _)
Split(str, sep) ==
    With(str, LAMBDA s :
        IF ~Contains(s, sep) THEN <<s>>
        ELSE With(IndexOf(s, sep), LAMBDA i :
                 <<Prefix(s, i)>> \o Split(SubSeq(s, i + 2, Len(s)), sep)))

\* sep.join(parts)
RECURSIVE Join(_, _)
Join(list, sep) ==
    With(list, LAMBDA parts :
        IF parts = <<>> THEN <<>>
        ELSE IF Len(parts) = 1 THEN parts[1]
        ELSE parts[1] \o <<sep>> \o Join(Tail(parts), sep))

-----------------------------------------------------------------------------------------------------------------------------------------------------
(* Mod resolvers.  Ids and names are strings; a table is a function from   *)
(* strings to strings, as a Python dict.                                   *)

EmptyDict == [k \in {} |-> <<>>]

\* d[k] = v
Put(d, k, v) == [x \in DOMAIN d \cup {k} |-> IF x = k THEN v ELSE d[x]]

\* dict((id, name) for ...) over the pairs in order: a later pair overwrites
RECURSIVE DictIdToName(_, _)
DictIdToName(d, pairs) ==
    IF pairs = <<>> THEN d
    ELSE DictIdToName(Put(d, Head(pairs)[1], Head(pairs)[2]), Tail(pairs))

\* dict((name.lower(), id) for ...) over the pairs in order
RECURSIVE DictLowerNameToId(_, _)
DictLowerNameToId(d, pairs) ==
    IF pairs = <<>> THEN d
    ELSE DictLowerNameToId(Put(d, Lower(Head(pairs)[2]), Head(pairs)[1]), Tail(pairs))

\* the namesToIds argument of FixedModResolver: name -> id, exact case
RECURSIVE DictNameToId(_, _)
DictNameToId(d, pairs) ==
    IF pairs = <<>> THEN d
    ELSE DictNameToId(Put(d, Head(pairs)[2], Head(pairs)[1]), Tail(pairs))

\* IniModResolver.initialise
IniIdToName(cfg) == DictIdToName(EmptyDict, cfg)
IniNameToId(cfg) == DictLowerNameToId(EmptyDict, cfg)

\* ManagedModResolver.initialise: the installed mods, then the official mods
ManagedIdToName(installed, offi) == DictIdToName(DictIdToName(EmptyDict, installed), offi)
ManagedNameToId(installed, offi) ==
    DictLowerNameToId(DictLowerNameToId(EmptyDict, installed), offi)

\* FixedModResolver.__init__: idsToNames = dict((v, k) for k, v in namesToIds.items())
FixedNameToId(cfg) == DictNameToId(EmptyDict, cfg)
FixedIdToName(cfg) == DictIdToName(EmptyDict, cfg)

\* the tables of a freshly initialised resolver of variant rv
InitIdToName(rv, cfg, offi) ==
    CASE rv = "ini" -> IniIdToName(cfg)
      [] rv = "managed" -> ManagedIdToName(cfg, offi)
      [] rv = "fixed" -> FixedIdToName(cfg)

InitNameToId(rv, cfg, offi) ==
    CASE rv = "ini" -> IniNameToId(cfg)
      [] rv = "managed" -> ManagedNameToId(cfg, offi)
      [] rv = "fixed" -> FixedNameToId(cfg)

\* IniModResolver.get_name_from_id: dict.get(modid, None)
IniNameFromId(modid) ==
    IF modid \in DOMAIN idToName THEN idToName[modid] ELSE None

\* ManagedModResolver.get_name_from_id: an unknown id is returned unchanged
ManagedNameFromId(modid) ==
    IF modid \in DOMAIN idToName THEN idToName[modid] ELSE modid

\* FixedModResolver.get_name_from_id: idsToNames[modid]
FixedNameFromId(modid) ==
    IF modid \in DOMAIN idToName THEN idToName[modid] ELSE KeyErr

\* IniModResolver.get_id_from_name: dict.get(name.lower(), None)
IniIdFromName(name) ==
    IF Lower(name) \in DOMAIN nameToId THEN nameToId[Lower(name)] ELSE None

\* ManagedModResolver.get_id_from_name: raises ModNotFound when absent
ManagedIdFromName(name) ==
    IF Lower(name) \in DOMAIN nameToId /\ nameToId[Lower(name)] # <<>>
    THEN nameToId[Lower(name)]
    ELSE ModNotFound

\* FixedModResolver.get_id_from_name: namesToIds[name]
FixedIdFromName(name) ==
    IF name \in DOMAIN nameToId THEN nameToId[name] ELSE KeyErr

\* self.modresolver.get_name_from_id(modid) for the variant in use
NameFromId(modid) ==
    CASE resolver = "ini" -> IniNameFromId(modid)
      [] resolver = "managed" -> ManagedNameFromId(modid)
      [] resolver = "fixed" -> FixedNameFromId(modid)

\* self.modresolver.get_id_from_name(name) for the variant in use
IdFromName(name) ==
    CASE resolver = "ini" -> IniIdFromName(name)
      [] resolver = "managed" -> ManagedIdFromName(name)
      [] resolver = "fixed" -> FixedIdFromName(name)

-----
(* AssetLoader.clean_asset_name *)

\* lines 131-133: remove the class name, if present
DropClassName(name) ==
    IF Contains(name, DOT) THEN Prefix(name, IndexOf(name, DOT)) ELSE name

\* line 136: name.strip().strip('/').strip('\\').replace('\\', '/')
TidySlashes(name) ==
    Replace(Strip(Strip(Strip(name, Whitespace), {SLASH}), {BSLASH}), BSLASH, SLASH)

\* lines 140-142: the mod id segment is replaced by what the resolver returns
IsModIdPath(parts) ==
    Len(parts) > 2 /\ Lower(parts[2]) = <<"mods">> /\ IsNumeric(parts[3])

\* lines 145-146
ContentToGame(parts) ==
    IF Len(parts) > 0 /\ Lower(parts[1]) = <<"content">>
    THEN [parts EXCEPT ![1] = <<"Game">>]
    ELSE parts

\* lines 149-152
JoinCleaned(parts) == <<SLASH>> \o Join(ContentToGame(parts), SLASH)

\* The whole function.  The result is the cleaned name, or the exception the
\* call ends with: KeyError raised by the fixed resolver, TypeError raised
\* by '/'.join when the ini resolver returned None for the mod segment.
CleanAssetName(name) ==
    With(Split(TidySlashes(DropClassName(name)), SLASH), LAMBDA parts :
        IF ~IsModIdPath(parts) THEN JoinCleaned(parts)
        ELSE With(NameFromId(parts[3]), LAMBDA modName :
                 IF modName = KeyErr THEN KeyErr
                 ELSE IF modName = None THEN TypeErr
                 ELSE JoinCleaned([parts EXCEPT ![3] = modName])))

-----------------------------------------------------------------------------
(* The container decoder: automate/modutils.py unpackModFile.              *)
(*                                                                        *)
(* The source file is a sequence of cells.  An integer field (8 bytes in   *)
(* the file) is one cell and a payload byte is one cell, so readUInt64     *)
(* consumes one cell and readBytes(n) consumes n.                          *)

\* The fixed token 0x9e2a83c1 of line 40. It is only ever compared for
\* equality; the model keeps its low 16 bits (0x83c1), the whole token being
\* wider than the integers TLC computes with.
MagicToken == 33729

\* The first byte of a zlib stream (0x78)
ZlibHeader == 120

\* How a call can end other than by returning
AssertionErr == "AssertionError"        \* a failed assert statement
ZlibErr == "zlib.error"                 \* raised by zlib.decompress
StreamErr == "StreamError"              \* a read past the end of the stream
DecompressionErr == "DecompressionError"    \* modutils.py DecompressionError
NoErr == "none"

\* A destination that was never opened
NoFile == <<-1>>

RECURSIVE Sum(_)
Sum(list) ==
    With(list, LAMBDA s : IF s = <<>> THEN 0 ELSE Head(s) + Sum(Tail(s)))

Min(a, b) == IF a <= b THEN a ELSE b

\* ---- zlib: the data as runs (count, byte), between a header byte and an
\* Adler checksum of the data
Adler(data) == (1 + Sum(data)) % 65521

\* length of the run of equal bytes data starts with
RunLen(data) ==
    CHOOSE k \in 1..Len(data) :
        /\ \A j \in 1..k : data[j] = data[1]
        /\ (k = Len(data) \/ data[k + 1] # data[1])

RECURSIVE Deflate(_)
Deflate(bytes) ==
    With(bytes, LAMBDA data :
        IF data = <<>> THEN <<>>
        ELSE With(RunLen(data), LAMBDA k :
                 <<k, data[1]>> \o Deflate(SubSeq(data, k + 1, Len(data)))))

\* the runs expanded, or <<-1>> when the runs are malformed
RECURSIVE Inflate(_)
Inflate(runs) ==
    With(runs, LAMBDA z :
        IF z = <<>> THEN <<>>
        ELSE IF Len(z) = 1 \/ z[1] < 1 THEN <<-1>>
        ELSE With(Inflate(SubSeq(z, 3, Len(z))), LAMBDA rest :
                 IF rest = <<-1>> THEN <<-1>>
                 ELSE [j \in 1..z[1] |-> z[2]] \o rest))

\* zlib.compress(data)
ZlibCompress(data) == <<ZlibHeader>> \o Deflate(data) \o <<Adler(data)>>

\* zlib.decompress(z): the data, or <<-1>> for zlib.error
ZlibDecompress(compressedData) ==
    With(compressedData, LAMBDA z :
        IF Len(z) < 2 \/ z[1] # ZlibHeader THEN <<-1>>
        ELSE With(Inflate(SubSeq(z, 2, Len(z) - 1)), LAMBDA data :
                 IF data = <<-1>> \/ Adler(data) # z[Len(z)] THEN <<-1>> ELSE data))

\* ---- a container per the layout of lines 25-32
\* the buffer cut into chunks of the nominal size, the last possibly shorter
NumChunks(buffer, size) == (Len(buffer) + size - 1) \div size

ChunkOf(buffer, size, k) ==
    SubSeq(buffer, (k - 1) * size + 1, Min(k * size, Len(buffer)))

RECURSIVE Concat(_)
Concat(lists) ==
    With(lists, LAMBDA l : IF l = <<>> THEN <<>> ELSE Head(l) \o Concat(Tail(l)))

EncodeContainer(buffer, size) ==
    LET n == NumChunks(buffer, size)
        packed == [k \in 1..n |-> ZlibCompress(ChunkOf(buffer, size, k))]
        table == [k \in 1..n |-> <<Len(packed[k]), Len(ChunkOf(buffer, size, k))>>]
    IN  <<MagicToken, size, Sum([k \in 1..n |-> Len(packed[k])]), Len(buffer)>>
            \o Concat(table) \o Concat(packed)

\* ---- what reaches the decoder: a container, whole or damaged
NoDamage == [kind |-> "none", at |-> 0, to |-> 0]

\* one cell overwritten, or the file cut short
Damages(cells) ==
    {NoDamage}
        \cup UNION {{[kind |-> "set", at |-> i, to |-> v] : v \in {0, 1, 2, 3} \ {cells[i]}} :
                       i \in 1..Len(cells)}
        \cup {[kind |-> "cut", at |-> n, to |-> 0] : n \in 0..(Len(cells) - 1)}

Damaged(cells, d) ==
    CASE d.kind = "none" -> cells
      [] d.kind = "set" -> [cells EXCEPT ![d.at] = d.to]
      [] d.kind = "cut" -> SubSeq(cells, 1, d.at)

Buffers == SeqsUpTo({0, 1}, MaxBuf)

Inputs ==
    {[buffer |-> b, size |-> s, damage |-> d] :
        b \in Buffers, s \in 1..MaxBuf, d \in {NoDamage}}
    \cup
    UNION {{[buffer |-> b, size |-> s, damage |-> d] : d \in Damages(EncodeContainer(b, s))} :
              b \in SeqsUpTo({0, 1}, MaxDamagedBuf), s \in 1..MaxDamagedBuf}

UnpackIdle ==
    /\ optimize = FALSE /\ input = [buffer |-> <<>>, size |-> 1, damage |-> NoDamage]
    /\ stream = <<>> /\ upos = 0 /\ token = 0 /\ sizeUnpackedChunk = 0 /\ sizeUnpacked = 0
    /\ sizeFound = 0 /\ chunkSizes = <<>> /\ chunkNo = 0 /\ dst = NoFile
    /\ upc = "idle" /\ uerr = NoErr /\ ucheck = "none"

-----------------------------------------------------------------------------
(* The key-value text parser (automate/modutils.py parseAcf).  A dict is a *)
(* Python object: acfHeap holds the dicts made during the call, a dict     *)
(* value is text or a reference to another dict, and current_section is a  *)
(* reference.                                                              *)

QUOTE == "\""
NL == "\n"

IndexErr == <<"#IndexError">>           \* list.pop() / list[-1] on an empty list

\* the values a dict holds: text, or the dict numbered ref
Text(s) == [ref |-> 0, str |-> s]
Ref(n) == [ref |-> n, str |-> <<>>]

\* str.splitlines() for "\n" line ends: no last empty line
SplitLines(data) ==
    With(Split(data, NL), LAMBDA parts :
        IF parts[Len(parts)] = <<>> THEN SubSeq(parts, 1, Len(parts) - 1) ELSE parts)

\* s.replace('"', '')
Unquote(s) == SelectSeq(s, LAMBDA c : c # QUOTE)

\* line.split(None, 1) of a stripped line: <<key, value>>, or fewer parts
\* (the unpacking into key, value then raises ValueError)
SplitOnce(line) ==
    IF line = <<>> THEN <<>>
    ELSE IF ~Contains(line, SPACE) THEN <<line>>
    ELSE With(IndexOf(line, SPACE), LAMBDA i :
             <<Prefix(line, i), LStrip(SubSeq(line, i + 1, Len(line)), Whitespace)>>)

\* sections[:-1] walked down from output (lines 87-89): the dict reached, or
\* the exception
RECURSIVE WalkSections(_, _, _)
WalkSections(heap, current, names) ==
    IF names = <<>> THEN [err |-> <<>>, at |-> current]
    ELSE IF Head(names) \notin DOMAIN heap[current] THEN [err |-> KeyErr, at |-> 0]
    ELSE IF heap[current][Head(names)].ref = 0 THEN [err |-> TypeErr, at |-> 0]
    ELSE WalkSections(heap, heap[current][Head(names)].ref, Tail(names))

\* line == '{' (lines 85-91): the last added section gets a new dict, which
\* becomes the current section
OpenSection(heap, names) ==
    IF names = <<>> THEN [err |-> IndexErr, heap |-> heap, current |-> 0]
    ELSE With(WalkSections(heap, 1, SubSeq(names, 1, Len(names) - 1)), LAMBDA w :
             IF w.err # <<>> THEN [err |-> w.err, heap |-> heap, current |-> 0]
             ELSE [err |-> <<>>,
                   heap |-> Append([heap EXCEPT ![w.at] =
                                       Put(@, names[Len(names)], Ref(Len(heap) + 1))],
                                   EmptyDict),
                   current |-> Len(heap) + 1])

\* line == '}' (lines 95-97): sections.pop()
PopSection_Lenient(names) ==
    IF names = <<>> THEN [err |-> <<>>, names |-> <<>>]
    ELSE [err |-> <<>>, names |-> SubSeq(names, 1, Len(names) - 1)]

PopSection(names) ==
    IF names = <<>> THEN [err |-> IndexErr, names |-> names]
    ELSE [err |-> <<>>, names |-> SubSeq(names, 1, Len(names) - 1)]

\* ---- the documents parsed
AcfLineSet ==
    { <<>>,                                                     \* an empty line
      <<SPACE>>,                                                \* a line of blanks
      <<QUOTE, "Root", QUOTE>>,
      <<SPACE, "Child">>,
      <<SPACE, QUOTE, "A", QUOTE, SPACE, SPACE, QUOTE, "1", QUOTE>>,
      <<"B", SPACE, "2">>,
      <<"{">>,
      <<SPACE, "}">> }

\* the document of the parser's example
ExampleDocument ==
    << <<QUOTE, "Root", QUOTE>>,
       <<"{">>,
       <<SPACE, QUOTE, "A", QUOTE, SPACE, SPACE, QUOTE, "1", QUOTE>>,
       <<SPACE, QUOTE, "Child", QUOTE>>,
       <<SPACE, "{">>,
       <<SPACE, SPACE, QUOTE, "B", QUOTE, SPACE, SPACE, QUOTE, "2", QUOTE>>,
       <<SPACE, "}">>,
       <<"}">> >>

Documents ==
    {Join(lines, NL) : lines \in SeqsUpTo(AcfLineSet, MaxAcfLines)}
        \cup {Join(ExampleDocument, NL), Join(ExampleDocument, NL) \o <<NL>>}

AcfIdle ==
    /\ acfData = <<>> /\ acfLines = <<>> /\ acfLine = 0
    /\ acfHeap = <<>> /\ currentSection = 0 /\ sections = <<>>
    /\ apc = "idle" /\ aerr = <<>>

-----------------------------------------------------------------------------
(* The string reader (automate/modutils.py readUnrealString) over a        *)
(* MemoryStream.  A UInt32 is wider than the integers TLC computes with: a *)
(* value read from four bytes is held as its two 16-bit halves,            *)
(* value = hi * 2^16 + lo.                                                 *)

ValueErr == <<"#ValueError">>           \* raise ValueError(...), line 127
UnicodeErr == <<"#UnicodeDecodeError">> \* bytes.decode on bytes that are no UTF-8
EndOfStream == <<"#EndOfStream">>       \* a read the stream has too few bytes for

\* f.readUInt32(): four bytes, the least significant first, unsigned
ReadUInt32(bytes) ==
    [lo |-> bytes[1] + 256 * bytes[2], hi |-> bytes[3] + 256 * bytes[4]]

\* count < 0, count == 0, count > n for a count held in halves
IsNegative(count) == count.hi < 0
IsZero(count) == count.hi = 0 /\ count.lo = 0
Exceeds(count, n) == count.hi > 0 \/ (count.hi = 0 /\ count.lo > n)

\* the character of a one-byte UTF-8 sequence
Char(byte) ==
    CASE byte = 0 -> "NUL"
      [] byte = 63 -> "?"
      [] byte = 97 -> "a"
      [] byte = 98 -> "b"
      [] byte = 99 -> "c"
      [] OTHER -> "x"

\* data.decode('utf8'): the characters, or UnicodeErr.  Bytes under 128 stand
\* for themselves, 195 opens a two-byte sequence that a byte in 128..191 ends.
RECURSIVE DecodeUtf8(_)
DecodeUtf8(data) ==
    With(data, LAMBDA d :
        IF d = <<>> THEN <<>>
        ELSE IF d[1] < 128
        THEN With(DecodeUtf8(Tail(d)), LAMBDA rest :
                 IF rest = UnicodeErr THEN UnicodeErr ELSE <<Char(d[1])>> \o rest)
        ELSE IF d[1] = 195 /\ Len(d) >= 2 /\ d[2] >= 128 /\ d[2] <= 191
        THEN With(DecodeUtf8(SubSeq(d, 3, Len(d))), LAMBDA rest :
                 IF rest = UnicodeErr THEN UnicodeErr ELSE <<"e'">> \o rest)
        ELSE UnicodeErr)

\* string[:-1]
DropLast_Terminators(string) ==
    IF Len(string) >= 2 /\ string[Len(string) - 1] = "NUL"
    THEN SubSeq(string, 1, Len(string) - 2)
    ELSE SubSeq(string, 1, Len(string) - 1)

DropLast(string) == SubSeq(string, 1, Len(string) - 1)

\* readUnrealString(f) on the bytes left in f, which holds fewer bytes than
\* asked for only when short is set and the stream gives what it has:
\* [ret, err, read] with read the number of bytes taken from f
ReadUnrealString(bytes, short) ==
    IF Len(bytes) < 4 THEN [ret |-> None, err |-> EndOfStream, read |-> 0]
    ELSE With(ReadUInt32(SubSeq(bytes, 1, 4)), LAMBDA count :
        IF IsNegative(count) THEN [ret |-> None, err |-> ValueErr, read |-> 4]
        ELSE IF IsZero(count) THEN [ret |-> None, err |-> <<>>, read |-> 4]
        ELSE IF Exceeds(count, Len(bytes) - 4) /\ ~short
        THEN [ret |-> None, err |-> EndOfStream, read |-> 4]
        ELSE With(IF Exceeds(count, Len(bytes) - 4) THEN SubSeq(bytes, 5, Len(bytes))
                  ELSE SubSeq(bytes, 5, 4 + count.lo), LAMBDA data :
             With(DecodeUtf8(data), LAMBDA string :
                 IF string = UnicodeErr
                 THEN [ret |-> None, err |-> UnicodeErr, read |-> 4 + Len(data)]
                 ELSE [ret |-> DropLast(string), err |-> <<>>, read |-> 4 + Len(data)])))

\* ---- the streams read
ByteSet == {0, 63, 97, 195, 169}

LengthFields ==
    {<<n, 0, 0, 0>> : n \in 0..(MaxStrLen + 1)}
        \cup {<<0, 1, 0, 0>>, <<0, 0, 1, 0>>, <<0, 0, 0, 128>>, <<2, 0, 0, 128>>,
              <<255, 255, 255, 255>>}

\* the record of the reader's example: length 5 over "abc\0?"
ExampleRecord == <<5, 0, 0, 0, 97, 98, 99, 0, 63>>

Streams ==
    {field \o payload : field \in LengthFields, payload \in SeqsUpTo(ByteSet, MaxStrLen)}
        \cup SeqsUpTo({0, 97}, 3)
        \cup {ExampleRecord, <<4, 0, 0, 0, 97, 98, 99, 0>>}

\* no asset was loaded: nothing followed, identified or warned about
GraphIdle == trail = <<>> /\ defaults = <<>> /\ warnings = <<>>

ReaderIdle ==
    /\ rdata = <<>> /\ rpos = 0 /\ rret = None /\ rerr = <<>> /\ rpc = "idle"

-----------------------------------------------------------------------------
(* Specification SpecClean: clean_asset_name applied to a raw name, then   *)
(* to its own result.                                                      *)

Alphabet == {SLASH, BSLASH, DOT, SPACE, "Content", "Mods", "123", "999"}

RawNames == SeqsUpTo(Alphabet, MaxNameLen)
Resolvers == {"ini", "managed", "fixed"}

\* The resolver the loader is built with: mod 123 is registered under the
\* alias MyMod, id 999 is not registered.
LoaderMods == << <<(<<"123">>), (<<"MyMod">>)>> >>

ResolverReady(cfg, offi) ==
    /\ resolver \in Resolvers
    /\ config = cfg
    /\ official = offi
    /\ idToName = InitIdToName(resolver, cfg, offi)
    /\ nameToId = InitNameToId(resolver, cfg, offi)

NoAnswer == [op |-> "none", arg |-> <<>>, ret |-> <<>>]

\* No UAsset: what DictCacheManager.lookup returns on a miss.  A UAsset is
\* [id, assetname, name, stage]; id tells objects apart (Python identity).
NoAsset == [id |-> 0, assetname |-> <<>>, name |-> <<>>, stage |-> "None"]
NoCall == [op |-> "none", arg |-> <<>>, ret |-> NoAsset, err |-> <<>>, file |-> <<>>]

\* AssetLoader.__init__: an empty DictCacheManager, nothing loaded
LoaderFresh == cache = EmptyDict /\ created = 0 /\ last = NoCall

InitClean ==
    /\ ResolverReady(LoaderMods, <<>>)
    /\ answer = NoAnswer
    /\ LoaderFresh
    /\ UnpackIdle
    /\ AcfIdle
    /\ ReaderIdle
    /\ GraphIdle
    /\ npc = "start"
    /\ rawName \in RawNames
    /\ clean1 = None
    /\ clean2 = None
    /\ relPath = None

\* clean_asset_name(rawName)
CleanOnce ==
    /\ npc = "start"
    /\ clean1' = CleanAssetName(rawName)
    /\ npc' = "once"
    /\ UNCHANGED <<resolverVars, answer, rawName, clean2, relPath, loaderVars, toolVars>>

\* clean_asset_name on the name the first call returned
CleanTwice ==
    /\ npc = "once"
    /\ clean1 \notin Errors
    /\ clean2' = CleanAssetName(clean1)
    /\ npc' = "twice"
    /\ UNCHANGED <<resolverVars, answer, rawName, clean1, relPath, loaderVars, toolVars>>

NextClean == CleanOnce \/ CleanTwice

SpecClean == InitClean /\ [][NextClean]_vars

-----------------------------------------------------------------------------
(* Specification SpecResolver: a resolver of any variant is initialised    *)
(* from a bounded table and then queried.                                  *)

ModIdPool == {<<"123">>, <<"111">>}
ModNamePool == {<<"MyMod">>, <<"MYMOD">>, <<"Other">>}
ModPairs == {<<i, n>> : i \in ModIdPool, n \in ModNamePool}

QueryIds == ModIdPool \cup {<<"999">>}
QueryNames == ModNamePool \cup {<<"mymod">>, <<"Foo">>}

Range(f) == {f[i] : i \in DOMAIN f}
DistinctAt(pairs, k) == \A i, j \in DOMAIN pairs : pairs[i][k] = pairs[j][k] => i = j

\* mods.ini [ids] and the installed-mod directories are keyed by id, the
\* namesToIds dict by name: those keys are distinct.
ConfigsOf(rv) ==
    {c \in SeqsUpTo(ModPairs, MaxMods) : DistinctAt(c, IF rv = "fixed" THEN 2 ELSE 1)}

OfficialsOf(rv) ==
    IF rv = "managed"
    THEN {c \in SeqsUpTo(ModPairs, MaxOfficial) : DistinctAt(c, 1)}
    ELSE {<<>>}

CleanIdle ==
    npc = "idle" /\ rawName = <<>> /\ clean1 = None /\ clean2 = None /\ relPath = None

InitResolver ==
    /\ resolver \in Resolvers
    /\ config \in ConfigsOf(resolver)
    /\ official \in OfficialsOf(resolver)
    /\ idToName = InitIdToName(resolver, config, official)
    /\ nameToId = InitNameToId(resolver, config, official)
    /\ answer = NoAnswer
    /\ CleanIdle
    /\ LoaderFresh
    /\ UnpackIdle
    /\ AcfIdle
    /\ ReaderIdle
    /\ GraphIdle

\* f(g(x)) in Python: an exception raised by g propagates, and a None
\* returned by g fails in name.lower() of get_id_from_name
IdFromNameOf(inner) ==
    IF inner \in Errors THEN inner
    ELSE IF inner = None /\ resolver # "fixed" THEN AttributeErr
    ELSE IdFromName(inner)

NameFromIdOf(inner) ==
    IF inner \in Errors THEN inner ELSE NameFromId(inner)

\* resolver.get_name_from_id(modid)
GetNameFromId(modid) ==
    /\ answer' = [op |-> "name_from_id", arg |-> modid, ret |-> NameFromId(modid)]
    /\ UNCHANGED <<resolverVars, cleanVars, loaderVars, toolVars>>

\* resolver.get_id_from_name(name)
GetIdFromName(name) ==
    /\ answer' = [op |-> "id_from_name", arg |-> name, ret |-> IdFromName(name)]
    /\ UNCHANGED <<resolverVars, cleanVars, loaderVars, toolVars>>

\* resolver.get_id_from_name(resolver.get_name_from_id(modid))
RoundTripId(modid) ==
    /\ answer' = [op |-> "id_name_id", arg |-> modid, ret |-> IdFromNameOf(NameFromId(modid))]
    /\ UNCHANGED <<resolverVars, cleanVars, loaderVars, toolVars>>

\* resolver.get_name_from_id(resolver.get_id_from_name(name))
RoundTripName(name) ==
    /\ answer' = [op |-> "name_id_name", arg |-> name, ret |-> NameFromIdOf(IdFromName(name))]
    /\ UNCHANGED <<resolverVars, cleanVars, loaderVars, toolVars>>

NextResolver ==
    \/ \E modid \in QueryIds : GetNameFromId(modid)
    \/ \E name \in QueryNames : GetIdFromName(name)
    \/ \E modid \in QueryIds : RoundTripId(modid)
    \/ \E name \in QueryNames : RoundTripName(name)

SpecResolver == InitResolver /\ [][NextResolver]_vars

\* the (id, name) pairs the resolver was initialised from
RegisteredPairs == Range(config) \cup Range(official)
RegisteredIds == {p[1] : p \in RegisteredPairs}
RegisteredNames == {p[2] : p \in RegisteredPairs}

-----------------------------------------------------------------------------
(* The loader: AssetLoader over a DictCacheManager and a directory tree.   *)

UASSET == ".uasset"
UMAP == ".umap"
ROOT == "<asset_path>"

\* s.startswith(prefix)
StartsWith(s, prefix) == Len(prefix) <= Len(s) /\ SubSeq(s, 1, Len(prefix)) = prefix

\* os.path.join(path, *parts) for parts that hold no separator: a part is
\* appended after a '/', unless the path already ends with one
RECURSIVE OsPathJoin(_, _)
OsPathJoin(base, list) ==
    With(<<base, list>>, LAMBDA a :
        LET path == a[1]
            parts == a[2]
        IN  IF parts = <<>> THEN path
            ELSE IF path = <<>> \/ path[Len(path)] = SLASH
                 THEN OsPathJoin(path \o Head(parts), Tail(parts))
                 ELSE OsPathJoin(path \o <<SLASH>> \o Head(parts), Tail(parts)))

\* lines 166-167 of convert_asset_name_to_path
IsModNamePath(parts) ==
    Len(parts) > 2 /\ Lower(parts[2]) = <<"mods">> /\ ~IsNumeric(parts[3])

\* lines 170-171
GameToContent(parts) ==
    IF Len(parts) > 0 /\ Lower(parts[1]) = <<"game">>
    THEN [parts EXCEPT ![1] = <<"Content">>]
    ELSE parts

\* lines 169-177
JoinPath(parts, partial, ext) ==
    IF partial THEN OsPathJoin(<<ROOT>>, GameToContent(parts))
    ELSE OsPathJoin(<<ROOT>>, GameToContent(parts)) \o <<ext>>

\* AssetLoader.convert_asset_name_to_path(name, partial, ext): the file name,
\* or the exception the call ends with (os.path.join raises TypeError for a
\* None segment)
ConvertName(name, partial, ext) ==
    With(CleanAssetName(name), LAMBDA cleaned :
        IF cleaned \in Errors THEN cleaned
        ELSE With(Split(Strip(cleaned, {SLASH}), SLASH), LAMBDA parts :
                 IF ~IsModNamePath(parts) THEN JoinPath(parts, partial, ext)
                 ELSE With(IdFromName(parts[3]), LAMBDA modId :
                          IF modId \in Errors THEN modId
                          ELSE IF modId = None THEN TypeErr
                          ELSE JoinPath([parts EXCEPT ![3] = modId], partial, ext))))

\* convert_asset_name_to_path(name, ext=ext)
ConvertAssetNameToPath(name, ext) == ConvertName(name, FALSE, ext)

\* The files under the asset root
Files == {
    <<ROOT, SLASH, "Content", SLASH, "Foo", UASSET>>,
    <<ROOT, SLASH, "Content", SLASH, "Map", UMAP>>,
    <<ROOT, SLASH, "Content", SLASH, "Mods", SLASH, "123", SLASH, "Foo", UASSET>>,
    <<ROOT, SLASH, "Content", SLASH, "Mods", SLASH, "123", SLASH, "Foo", UMAP>> }

\* Path(filename).is_file()
IsFile(filename) == filename \in Files

\* load_raw_asset with the extensions tried in the order ('.umap', '.uasset')
LoadRawAsset_SecondaryFirst(name) ==
    With(CleanAssetName(name), LAMBDA cleaned :
        IF cleaned \in Errors THEN [err |-> cleaned, file |-> <<>>]
        ELSE With(ConvertAssetNameToPath(cleaned, UMAP), LAMBDA first :
                 IF first \in Errors THEN [err |-> first, file |-> <<>>]
                 ELSE IF IsFile(first) THEN [err |-> <<>>, file |-> first]
                 ELSE With(ConvertAssetNameToPath(cleaned, UASSET), LAMBDA second :
                          IF second \in Errors THEN [err |-> second, file |-> <<>>]
                          ELSE IF IsFile(second) THEN [err |-> <<>>, file |-> second]
                          ELSE [err |-> AssetNotFound, file |-> <<>>])))

\* AssetLoader.load_raw_asset(name): [err, file], file being the file read
\* by load_file_into_memory, <<>> if none was read
LoadRawAsset(name) ==
    With(CleanAssetName(name), LAMBDA cleaned :
        IF cleaned \in Errors THEN [err |-> cleaned, file |-> <<>>]
        ELSE With(ConvertAssetNameToPath(cleaned, UASSET), LAMBDA first :
                 IF first \in Errors THEN [err |-> first, file |-> <<>>]
                 ELSE IF IsFile(first) THEN [err |-> <<>>, file |-> first]
                 ELSE With(ConvertAssetNameToPath(cleaned, UMAP), LAMBDA second :
                          IF second \in Errors THEN [err |-> second, file |-> <<>>]
                          ELSE IF IsFile(second) THEN [err |-> <<>>, file |-> second]
                          ELSE [err |-> AssetNotFound, file |-> <<>>])))

\* The step of _load_asset at which the file's content makes it raise
Fates == {"ok", "deserialise", "link", "default"}

\* assetname.split('/')[-1]
LastPart(assetname) == LET parts == Split(assetname, SLASH) IN parts[Len(parts)]

\* lines 311-314: the UAsset object of _load_asset
NewAsset(assetname, stage) ==
    [id |-> created + 1, assetname |-> assetname, name |-> LastPart(assetname), stage |-> stage]

\* _load_asset with cache.add moved before asset.link()
LoadAsset_AddBeforeLink(assetname, doNotLink, fate) ==
    With(LoadRawAsset(assetname), LAMBDA raw :
        IF raw.err # <<>>
        THEN [err |-> raw.err, file |-> <<>>, asset |-> NoAsset, add |-> FALSE]
        ELSE IF fate = "deserialise"
        THEN [err |-> DeserialiseErr, file |-> raw.file, asset |-> NoAsset, add |-> FALSE]
        ELSE IF doNotLink
        THEN [err |-> <<>>, file |-> raw.file, asset |-> NewAsset(assetname, "Deserialized"),
              add |-> FALSE]
        ELSE IF fate = "link"
        THEN [err |-> LinkErr, file |-> raw.file,
              asset |-> NewAsset(assetname, "Deserialized"), add |-> TRUE]
        ELSE IF fate = "default"
        THEN [err |-> DefaultErr, file |-> raw.file,
              asset |-> NewAsset(assetname, "Linked"), add |-> TRUE]
        ELSE [err |-> <<>>, file |-> raw.file, asset |-> NewAsset(assetname, "Linked"),
              add |-> TRUE])

\* _load_asset without the early return of doNotLink before cache.add
LoadAsset_ShallowCached(assetname, doNotLink, fate) ==
    With(LoadRawAsset(assetname), LAMBDA raw :
        IF raw.err # <<>>
        THEN [err |-> raw.err, file |-> <<>>, asset |-> NoAsset, add |-> FALSE]
        ELSE IF fate = "deserialise"
        THEN [err |-> DeserialiseErr, file |-> raw.file, asset |-> NoAsset, add |-> FALSE]
        ELSE IF doNotLink
        THEN [err |-> <<>>, file |-> raw.file, asset |-> NewAsset(assetname, "Deserialized"),
              add |-> TRUE]
        ELSE IF fate = "link"
        THEN [err |-> LinkErr, file |-> raw.file, asset |-> NoAsset, add |-> FALSE]
        ELSE IF fate = "default"
        THEN [err |-> DefaultErr, file |-> raw.file, asset |-> NoAsset, add |-> FALSE]
        ELSE [err |-> <<>>, file |-> raw.file, asset |-> NewAsset(assetname, "Linked"),
              add |-> TRUE])

\* AssetLoader._load_asset(assetname, doNotLink) on a file whose content has
\* the given fate: [err, file, asset, add].  asset is the UAsset returned (or
\* NoAsset); add tells whether line 328, cache.add, was reached.
LoadAsset(assetname, doNotLink, fate) ==
    With(LoadRawAsset(assetname), LAMBDA raw :
        IF raw.err # <<>>
        THEN [err |-> raw.err, file |-> <<>>, asset |-> NoAsset, add |-> FALSE]
        ELSE IF fate = "deserialise"
        THEN [err |-> DeserialiseErr, file |-> raw.file, asset |-> NoAsset, add |-> FALSE]
        ELSE IF doNotLink
        THEN [err |-> <<>>, file |-> raw.file, asset |-> NewAsset(assetname, "Deserialized"),
              add |-> FALSE]
        ELSE IF fate = "link"
        THEN [err |-> LinkErr, file |-> raw.file, asset |-> NoAsset, add |-> FALSE]
        ELSE IF fate = "default"
        THEN [err |-> DefaultErr, file |-> raw.file, asset |-> NoAsset, add |-> FALSE]
        ELSE [err |-> <<>>, file |-> raw.file, asset |-> NewAsset(assetname, "Linked"),
              add |-> TRUE])

\* a lookup that never finds the entry
Lookup_Miss(c, name) == NoAsset

\* DictCacheManager.lookup
Lookup(c, name) == IF name \in DOMAIN c THEN c[name] ELSE NoAsset

\* DictCacheManager.add
Add(c, name, asset) == Put(c, name, asset)

\* DictCacheManager.remove, for a name that is cached
Remove(c, name) == [k \in DOMAIN c \ {name} |-> c[k]]

\* a wipe that deletes the entry named prefix instead of the names under it
WipeDict_Exact(c, prefix) ==
    IF prefix = <<>> THEN EmptyDict
    ELSE [k \in DOMAIN c \ {prefix} |-> c[k]]

\* DictCacheManager.wipe
WipeDict(c, prefix) ==
    IF prefix = <<>> THEN EmptyDict
    ELSE [k \in {n \in DOMAIN c : ~StartsWith(n, prefix)} |-> c[k]]

\* an effect that caches every asset _load_asset returns, linked or not
Loaded_CachesAll(op, arg, key, r) ==
    /\ created' = IF r.err = <<>> THEN created + 1 ELSE created
    /\ cache' = IF r.asset # NoAsset THEN Add(cache, key, r.asset) ELSE cache
    /\ last' = [op |-> op, arg |-> arg, ret |-> r.asset, err |-> r.err, file |-> r.file]

\* The effect on the loader of a call that ran _load_asset with result r
Loaded(op, arg, key, r) ==
    /\ created' = IF r.err = <<>> THEN created + 1 ELSE created
    /\ cache' = IF r.add THEN Add(cache, key, r.asset) ELSE cache
    /\ last' = [op |-> op, arg |-> arg, ret |-> r.asset, err |-> r.err, file |-> r.file]

\* Room for one more asset object
Room == created < MaxAssets

\* The body of AssetLoader.__getitem__(assetname): its effect on the loader
GetItem(assetname) ==
    \E cleaned \in {CleanAssetName(assetname)} :
        \E hit \in {IF cleaned \in Errors THEN NoAsset ELSE Lookup(cache, cleaned)} :
           IF cleaned \in Errors
           THEN /\ last' = [op |-> "retrieve", arg |-> assetname, ret |-> NoAsset,
                            err |-> cleaned, file |-> <<>>]
                /\ UNCHANGED <<cache, created>>
           ELSE IF hit # NoAsset
           THEN /\ last' = [op |-> "retrieve", arg |-> assetname, ret |-> hit,
                            err |-> <<>>, file |-> <<>>]
                /\ UNCHANGED <<cache, created>>
           ELSE /\ Room
                /\ \E fate \in Fates :
                   \E r \in {LoadAsset(cleaned, FALSE, fate)} :
                       Loaded("retrieve", assetname, cleaned, r)

\* AssetLoader.__getitem__(assetname): loader[assetname]
Retrieve(assetname) ==
    /\ UNCHANGED <<resolverVars, answer, cleanVars, toolVars>>
    /\ GetItem(assetname)

\* AssetLoader.partially_load_asset(assetname)
RetrieveShallow(assetname) ==
    /\ Room
    /\ \E fate \in Fates :
       \E r \in {LoadAsset(assetname, TRUE, fate)} :
           Loaded("shallow", assetname, assetname, r)
    /\ UNCHANGED <<resolverVars, answer, cleanVars, toolVars>>

\* __delitem__ that empties the cache when the name is not cached
Invalidate_ClearsOnMiss(assetname) ==
    /\ \E cleaned \in {CleanAssetName(assetname)} :
       \E err \in {IF cleaned \in Errors THEN cleaned
                   ELSE IF cleaned \notin DOMAIN cache THEN KeyErr
                   ELSE <<>>} :
           /\ cache' = IF err = <<>> THEN Remove(cache, cleaned) ELSE EmptyDict
           /\ last' = [op |-> "invalidate", arg |-> assetname, ret |-> NoAsset,
                       err |-> err, file |-> <<>>]
    /\ UNCHANGED <<resolverVars, answer, cleanVars, created, toolVars>>

\* AssetLoader.__delitem__(assetname): del loader[assetname]
Invalidate(assetname) ==
    /\ \E cleaned \in {CleanAssetName(assetname)} :
       \E err \in {IF cleaned \in Errors THEN cleaned
                   ELSE IF cleaned \notin DOMAIN cache THEN KeyErr
                   ELSE <<>>} :
           /\ cache' = IF err = <<>> THEN Remove(cache, cleaned) ELSE cache
           /\ last' = [op |-> "invalidate", arg |-> assetname, ret |-> NoAsset,
                       err |-> err, file |-> <<>>]
    /\ UNCHANGED <<resolverVars, answer, cleanVars, created, toolVars>>

\* AssetLoader.wipe_cache_with_prefix(prefix)
Wipe(prefix) ==
    /\ cache' = WipeDict(cache, prefix)
    /\ last' = [op |-> "wipe", arg |-> prefix, ret |-> NoAsset, err |-> <<>>, file |-> <<>>]
    /\ UNCHANGED <<resolverVars, answer, cleanVars, created, toolVars>>

\* AssetLoader.wipe_cache()
WipeCache ==
    /\ cache' = WipeDict(cache, <<>>)
    /\ last' = [op |-> "wipe_cache", arg |-> <<>>, ret |-> NoAsset, err |-> <<>>, file |-> <<>>]
    /\ UNCHANGED <<resolverVars, answer, cleanVars, created, toolVars>>

\* The asset names callers ask for
AssetNames == {
    <<SLASH, "Game", SLASH, "Foo">>,
    <<"Content", BSLASH, "Foo", DOT, "Foo">>,
    <<SLASH, "Game", SLASH, "Map">>,
    <<SLASH, "Game", SLASH, "Mods", SLASH, "123", SLASH, "Foo">>,
    <<SLASH, "Game", SLASH, "Mods", SLASH, "MYMOD", SLASH, "Foo">>,
    <<SLASH, "Game", SLASH, "Mods", SLASH, "999", SLASH, "Foo">> }

\* The prefixes callers wipe
Prefixes == {
    <<>>,
    <<SLASH, "Game", SLASH, "Mods">>,
    <<SLASH, "Game", SLASH, "Foo">>,
    <<"Game">> }

Init ==
    /\ ResolverReady(LoaderMods, <<>>)
    /\ answer = NoAnswer
    /\ CleanIdle
    /\ LoaderFresh
    /\ UnpackIdle
    /\ AcfIdle
    /\ ReaderIdle
    /\ GraphIdle

Next ==
    \/ \E n \in AssetNames : Retrieve(n)
    \/ \E n \in AssetNames : RetrieveShallow(n)
    \/ \E n \in AssetNames : Invalidate(n)
    \/ \E p \in Prefixes : Wipe(p)
    \/ WipeCache

Spec == Init /\ [][Next]_vars

-----------------------------------------------------------------------------
(* Specification SpecUnpack: unpackModFile run on a container, whole or    *)
(* damaged.                                                                *)

InitUnpack ==
    /\ ResolverReady(<<>>, <<>>) /\ resolver = "managed"
    /\ answer = NoAnswer
    /\ CleanIdle
    /\ LoaderFresh
    /\ AcfIdle
    /\ ReaderIdle
    /\ GraphIdle
    /\ optimize \in BOOLEAN
    /\ input \in Inputs
    /\ stream = Damaged(EncodeContainer(input.buffer, input.size), input.damage)
    /\ upos = 0 /\ token = 0 /\ sizeUnpackedChunk = 0 /\ sizeUnpacked = 0
    /\ sizeFound = 0 /\ chunkSizes = <<>> /\ chunkNo = 0 /\ dst = NoFile
    /\ upc = "start" /\ uerr = NoErr /\ ucheck = "none"

otherVars == <<resolverVars, answer, cleanVars, loaderVars, sideVars>>

\* the call ends with exception e; check names the assert that failed
Raise(e, check) ==
    /\ upc' = "failed"
    /\ uerr' = e
    /\ ucheck' = check

\* can the stream still give n cells (MemoryStream.readUInt64 / readBytes)
CanRead(n) == upos + n <= Len(stream)

\* lines 34-40: the header and the assert on the token
ReadHeader ==
    /\ upc = "start"
    /\ IF ~CanRead(4)
       THEN /\ Raise(StreamErr, "none")
            /\ UNCHANGED <<upos, token, sizeUnpackedChunk, sizeUnpacked>>
       ELSE /\ token' = stream[1]
            /\ sizeUnpackedChunk' = stream[2]
            /\ sizeUnpacked' = stream[4]
            /\ upos' = 4
            /\ IF ~optimize /\ stream[1] # MagicToken
               THEN Raise(AssertionErr, "magic")
               ELSE upc' = "table" /\ UNCHANGED <<uerr, ucheck>>
    /\ UNCHANGED <<otherVars, optimize, input, stream, sizeFound, chunkSizes, chunkNo, dst>>

\* a descriptor loop that waits at the end of the stream instead of failing
ReadDescriptor_Waiting ==
    /\ upc = "table"
    /\ sizeFound < sizeUnpacked
    /\ IF ~CanRead(2)
       THEN UNCHANGED <<upos, chunkSizes, sizeFound, upc, uerr, ucheck>>
       ELSE /\ chunkSizes' = Append(chunkSizes, <<stream[upos + 1], stream[upos + 2]>>)
            /\ sizeFound' = sizeFound + stream[upos + 2]
            /\ upos' = upos + 2
            /\ UNCHANGED <<upc, uerr, ucheck>>
    /\ UNCHANGED <<otherVars, optimize, input, stream, token, sizeUnpackedChunk,
                   sizeUnpacked, chunkNo, dst>>

\* lines 44-48: one turn of the loop over the chunk descriptors
ReadDescriptor ==
    /\ upc = "table"
    /\ sizeFound < sizeUnpacked
    /\ IF ~CanRead(2)
       THEN /\ Raise(StreamErr, "none")
            /\ UNCHANGED <<upos, chunkSizes, sizeFound>>
       ELSE /\ chunkSizes' = Append(chunkSizes, <<stream[upos + 1], stream[upos + 2]>>)
            /\ sizeFound' = sizeFound + stream[upos + 2]
            /\ upos' = upos + 2
            /\ UNCHANGED <<upc, uerr, ucheck>>
    /\ UNCHANGED <<otherVars, optimize, input, stream, token, sizeUnpackedChunk,
                   sizeUnpacked, chunkNo, dst>>

\* lines 50-52: the loop is over; the assert on the sum, then open(dst, 'wb')
OpenDestination ==
    /\ upc = "table"
    /\ ~(sizeFound < sizeUnpacked)
    /\ IF ~optimize /\ sizeFound # sizeUnpacked
       THEN Raise(AssertionErr, "sum") /\ UNCHANGED dst
       ELSE upc' = "chunks" /\ dst' = <<>> /\ UNCHANGED <<uerr, ucheck>>
    /\ UNCHANGED <<otherVars, optimize, input, stream, upos, token, sizeUnpackedChunk,
                   sizeUnpacked, sizeFound, chunkSizes, chunkNo>>

\* f.write(data) on a file opened once with 'wb': data goes after what is there
Write_Truncating(file, data) == data

Write(file, data) == file \o data

\* lines 53-64: one turn of the loop over the chunks
DecodeChunk ==
    /\ upc = "chunks"
    /\ chunkNo < Len(chunkSizes)
    /\ \E csCompressed \in {chunkSizes[chunkNo + 1][1]} :
       \E csUncompressed \in {chunkSizes[chunkNo + 1][2]} :
          IF ~CanRead(csCompressed)
          THEN Raise(StreamErr, "none") /\ UNCHANGED <<upos, chunkNo, dst>>
          ELSE \E data \in {ZlibDecompress(SubSeq(stream, upos + 1, upos + csCompressed))} :
                  IF data = <<-1>>
                  THEN Raise(ZlibErr, "none") /\ UNCHANGED <<upos, chunkNo, dst>>
                  ELSE IF ~optimize /\ Len(data) # csUncompressed
                  THEN Raise(AssertionErr, "length") /\ UNCHANGED <<upos, chunkNo, dst>>
                  ELSE IF /\ ~optimize
                          /\ ~(Len(data) = sizeUnpackedChunk \/ chunkNo + 1 = Len(chunkSizes))
                  THEN Raise(AssertionErr, "nominal") /\ UNCHANGED <<upos, chunkNo, dst>>
                  ELSE /\ dst' = Write(dst, data)
                       /\ upos' = upos + csCompressed
                       /\ chunkNo' = chunkNo + 1
                       /\ UNCHANGED <<upc, uerr, ucheck>>
    /\ UNCHANGED <<otherVars, optimize, input, stream, token, sizeUnpackedChunk,
                   sizeUnpacked, sizeFound, chunkSizes>>

\* the with block of line 52 is left: the destination is closed, the call returns
CloseDestination ==
    /\ upc = "chunks"
    /\ chunkNo = Len(chunkSizes)
    /\ upc' = "done"
    /\ UNCHANGED <<otherVars, optimize, input, stream, upos, token, sizeUnpackedChunk,
                   sizeUnpacked, sizeFound, chunkSizes, chunkNo, dst, uerr, ucheck>>

NextUnpack ==
    \/ ReadHeader
    \/ ReadDescriptor
    \/ OpenDestination
    \/ DecodeChunk
    \/ CloseDestination

SpecUnpack == InitUnpack /\ [][NextUnpack]_vars

\* unpackModFile is one sequential call: it keeps taking its next step
SpecUnpackLive == InitUnpack /\ [][NextUnpack]_vars /\ WF_vars(NextUnpack)

-----------------------------------------------------------------------------
(* Specification SpecAcf: parseAcf run on a document, one line per step.    *)

InitAcf ==
    /\ ResolverReady(<<>>, <<>>) /\ resolver = "managed"
    /\ answer = NoAnswer
    /\ CleanIdle
    /\ LoaderFresh
    /\ UnpackIdle
    /\ ReaderIdle
    /\ GraphIdle
    /\ acfData \in Documents
    /\ acfLines = SplitLines(acfData)
    /\ acfLine = 0
    /\ acfHeap = <<EmptyDict>>          \* output = outputType()
    /\ currentSection = 1               \* current_section = output
    /\ sections = <<>>
    /\ apc = "run" /\ aerr = <<>>

acfOtherVars == <<resolverVars, answer, cleanVars, loaderVars, unpackVars, readerVars,
                  graphVars>>

\* the call ends with exception e
AcfRaise(e) ==
    /\ apc' = "failed"
    /\ aerr' = e
    /\ UNCHANGED <<acfHeap, currentSection, sections>>

\* lines 78-103: one turn of the loop over the lines
ParseLine ==
    /\ apc = "run"
    /\ acfLine < Len(acfLines)
    /\ acfLine' = acfLine + 1
    /\ \E raw \in {acfLines[acfLine + 1]} :
          IF raw = <<>>
          THEN \* break, then return output
               /\ apc' = "done"
               /\ UNCHANGED <<acfHeap, currentSection, sections, aerr>>
          ELSE \E line \in {Strip(raw, Whitespace)} :
               \E kv \in {SplitOnce(line)} :
                  IF Len(kv) = 2
                  THEN \* current_section[key] = value
                       /\ acfHeap' = [acfHeap EXCEPT ![currentSection] =
                                         Put(@, LStrip(Unquote(kv[1]), Whitespace),
                                             Text(RStrip(Unquote(kv[2]), Whitespace)))]
                       /\ UNCHANGED <<currentSection, sections, apc, aerr>>
                  ELSE IF line = <<"{">>
                  THEN \E r \in {OpenSection(acfHeap, sections)} :
                          IF r.err # <<>> THEN AcfRaise(r.err)
                          ELSE /\ acfHeap' = r.heap
                               /\ currentSection' = r.current
                               /\ UNCHANGED <<sections, apc, aerr>>
                  ELSE IF line = <<"}">>
                  THEN \E r \in {PopSection(sections)} :
                          IF r.err # <<>> THEN AcfRaise(r.err)
                          ELSE /\ sections' = r.names
                               /\ UNCHANGED <<acfHeap, currentSection, apc, aerr>>
                  ELSE /\ sections' = Append(sections, Unquote(line))
                       /\ UNCHANGED <<acfHeap, currentSection, apc, aerr>>
    /\ UNCHANGED <<acfOtherVars, acfData, acfLines>>

\* line 105: the lines are used up, return output
ReturnOutput ==
    /\ apc = "run"
    /\ acfLine = Len(acfLines)
    /\ apc' = "done"
    /\ UNCHANGED <<acfOtherVars, acfData, acfLines, acfLine, acfHeap, currentSection,
                   sections, aerr>>

NextAcf == ParseLine \/ ReturnOutput

SpecAcf == InitAcf /\ [][NextAcf]_vars

-----------------------------------------------------------------------------
(* Specification SpecReader: readUnrealString called on a stream.           *)

InitReader ==
    /\ ResolverReady(<<>>, <<>>) /\ resolver = "managed"
    /\ answer = NoAnswer
    /\ CleanIdle
    /\ LoaderFresh
    /\ UnpackIdle
    /\ AcfIdle
    /\ GraphIdle
    /\ rdata \in Streams
    /\ rpos = 0 /\ rret = None /\ rerr = <<>> /\ rpc = "start"

\* lines 124-132, the whole call
CallReadUnrealString ==
    /\ rpc = "start"
    /\ \E short \in BOOLEAN :
       \E r \in {ReadUnrealString(SubSeq(rdata, rpos + 1, Len(rdata)), short)} :
          /\ rpos' = rpos + r.read
          /\ rret' = r.ret
          /\ rerr' = r.err
          /\ rpc' = IF r.err = <<>> THEN "done" ELSE "failed"
    /\ UNCHANGED <<resolverVars, answer, cleanVars, loaderVars, unpackVars, acfVars, rdata,
                   graphVars>>

NextReader == CallReadUnrealString

SpecReader == InitReader /\ [][NextReader]_vars

-----------------------------------------------------------------------------
(* Specification SpecMod: get_mod_name and get_mod_id asked about a name.   *)

\* lines 182-186 and 195-199: the mod segment of a cleaned name, or None
ModSegment(cleaned) ==
    With(Split(Strip(cleaned, {SLASH}), SLASH), LAMBDA parts :
        IF Len(parts) < 3 THEN None
        ELSE IF Lower(parts[1]) # <<"game">> \/ Lower(parts[2]) # <<"mods">> THEN None
        ELSE parts[3])

\* AssetLoader.get_mod_name(assetname): the name, None, or the exception
GetModName(assetname) ==
    With(CleanAssetName(assetname), LAMBDA cleaned :
        IF cleaned \in Errors THEN cleaned
        ELSE With(ModSegment(cleaned), LAMBDA mod :
                 IF mod = None THEN None
                 ELSE IF IsNumeric(mod) THEN NameFromId(mod)
                 ELSE mod))

\* AssetLoader.get_mod_id(assetname): the id, None, or the exception
GetModId(assetname) ==
    With(CleanAssetName(assetname), LAMBDA cleaned :
        IF cleaned \in Errors THEN cleaned
        ELSE With(ModSegment(cleaned), LAMBDA mod :
                 IF mod = None THEN None
                 ELSE IF ~IsNumeric(mod) THEN IdFromName(mod)
                 ELSE mod))

ModAlphabet == {SLASH, "Game", "Mods", "Foo", "123", "999", "MyMod"}
ModQueryNames == SeqsUpTo(ModAlphabet, MaxNameLen)

InitMod ==
    /\ ResolverReady(LoaderMods, <<>>)
    /\ answer = NoAnswer
    /\ npc = "idle"
    /\ rawName \in ModQueryNames        \* the name asked about
    /\ clean1 = None /\ clean2 = None /\ relPath = None
    /\ LoaderFresh
    /\ UnpackIdle
    /\ AcfIdle
    /\ ReaderIdle
    /\ GraphIdle

CallGetModName ==
    /\ answer' = [op |-> "get_mod_name", arg |-> rawName, ret |-> GetModName(rawName)]
    /\ UNCHANGED <<resolverVars, cleanVars, loaderVars, toolVars>>

CallGetModId ==
    /\ answer' = [op |-> "get_mod_id", arg |-> rawName, ret |-> GetModId(rawName)]
    /\ UNCHANGED <<resolverVars, cleanVars, loaderVars, toolVars>>

NextMod == CallGetModName \/ CallGetModId

SpecMod == InitMod /\ [][NextMod]_vars

-----------------------------------------------------------------------------
(* Specification SpecPath: a name is cleaned, converted to a path without   *)
(* extension, and the path below the asset root is cleaned again.           *)

PathAlphabet == {SLASH, SPACE, "Game", "game", "Foo", "Mods", "MyMod"}
PathNames == SeqsUpTo(PathAlphabet, MaxNameLen)

InitPath ==
    /\ ResolverReady(LoaderMods, <<>>)
    /\ answer = NoAnswer
    /\ LoaderFresh
    /\ UnpackIdle
    /\ AcfIdle
    /\ ReaderIdle
    /\ GraphIdle
    /\ npc = "start"
    /\ rawName \in PathNames
    /\ clean1 = None
    /\ clean2 = None
    /\ relPath = None

\* the path below the asset root: the root and the separator after it dropped
RelativeToRoot(path) == SubSeq(path, 3, Len(path))

\* convert_asset_name_to_path(clean1, partial=True)
ToPath ==
    /\ npc = "once"
    /\ clean1 \notin Errors
    /\ \E path \in {ConvertName(clean1, TRUE, UASSET)} :
          relPath' = IF path \in Errors THEN path ELSE RelativeToRoot(path)
    /\ npc' = "path"
    /\ UNCHANGED <<resolverVars, answer, rawName, clean1, clean2, loaderVars, toolVars>>

\* clean_asset_name on the relative path
CleanPath ==
    /\ npc = "path"
    /\ relPath \notin Errors
    /\ clean2' = CleanAssetName(relPath)
    /\ npc' = "back"
    /\ UNCHANGED <<resolverVars, answer, rawName, clean1, relPath, loaderVars, toolVars>>

NextPath == CleanOnce \/ ToPath \/ CleanPath

SpecPath == InitPath /\ [][NextPath]_vars

-----------------------------------------------------------------------------
(* Every loader call leaves its record in last, so a step with            *)
(* last'.op = "retrieve" that changes the state is a call of              *)
(* loader[last'.arg], and likewise for the other operations.               *)

(* C1.  Cache at-most-once.  A retrieve of a name whose canonical form is  *)
(* cached returns the cached asset and reads no file; a retrieve that       *)
(* misses and succeeds reads one file and leaves its asset cached under    *)
(* the canonical name; so of two retrieves of a name in a row the second    *)
(* returns the object of the first and reads nothing.                      *)
C1_CacheAtMostOnce ==
    [][last'.op = "retrieve" =>
          LET cleaned == CleanAssetName(last'.arg)
          IN  /\ cleaned \in DOMAIN cache
                    => /\ last'.err = <<>>
                       /\ last'.ret = cache[cleaned]
                       /\ last'.file = <<>>
                       /\ created' = created
                       /\ cache' = cache
              /\ (cleaned \notin DOMAIN cache /\ last'.err = <<>>)
                    => /\ last'.file # <<>>
                       /\ cleaned \in DOMAIN cache'
                       /\ cache'[cleaned] = last'.ret
              /\ (last.op = "retrieve" /\ last.arg = last'.arg /\ last.err = <<>>)
                    => /\ last'.ret.id = last.ret.id
                       /\ last'.file = <<>>]_vars

\* a retrieve was answered from the cache
C1_Witness ==
    /\ last.op = "retrieve"
    /\ last.err = <<>>
    /\ last.file = <<>>
    /\ last.ret # NoAsset

(* C3.  A failed load is never cached: a retrieve that fails leaves the    *)
(* cache as it was, with no entry under the canonical name, and the next    *)
(* retrieve of the name, when it succeeds, has read the file again.        *)
C3_FailedLoadNotCached ==
    [][last'.op = "retrieve" =>
          /\ last'.err # <<>>
                => /\ cache' = cache
                   /\ CleanAssetName(last'.arg) \notin DOMAIN cache'
                   /\ last'.ret = NoAsset
          /\ (last.op = "retrieve" /\ last.arg = last'.arg /\ last.err # <<>>
                /\ last'.err = <<>>)
                => last'.file # <<>>]_vars

\* a retrieve read the file and failed while linking
C3_Witness ==
    /\ last.op = "retrieve"
    /\ last.err = LinkErr
    /\ last.file # <<>>
    /\ CleanAssetName(last.arg) \notin DOMAIN cache

(* C4.  Prefix wipe: after wipe(p) lookup finds nothing under any cached   *)
(* name that starts with p, every other entry is the same asset under the   *)
(* same name, nothing is added, and wipe with the empty prefix empties the  *)
(* cache.                                                                  *)
C4_PrefixWipe ==
    [][last'.op = "wipe" =>
          /\ \A k \in DOMAIN cache :
                 IF StartsWith(k, last'.arg)
                 THEN Lookup(cache', k) = NoAsset
                 ELSE Lookup(cache', k) = cache[k]
          /\ DOMAIN cache' \subseteq DOMAIN cache
          /\ (last'.arg = <<>> => cache' = EmptyDict)]_vars

\* two assets were cached and a wipe of /Game/Mods left only /Game/Foo
C4_Witness ==
    /\ last.op = "wipe"
    /\ last.arg = <<SLASH, "Game", SLASH, "Mods">>
    /\ created = 2
    /\ DOMAIN cache = {<<SLASH, "Game", SLASH, "Foo">>}

(* C5.  partially_load_asset leaves the cache unchanged, so a retrieve of   *)
(* the same name right after a shallow load, the name not being cached,     *)
(* reads the file again and returns a new, linked asset.                   *)
C5_ShallowLeavesCache ==
    [][/\ last'.op = "shallow" => cache' = cache
       /\ (/\ last.op = "shallow" /\ last.err = <<>>
           /\ last'.op = "retrieve" /\ last'.arg = last.arg /\ last'.err = <<>>
           /\ CleanAssetName(last.arg) \notin DOMAIN cache)
             => /\ last'.file # <<>>
                /\ last'.ret.stage = "Linked"
                /\ last'.ret.id # last.ret.id]_vars

\* a shallow load returned a deserialised asset while another asset is cached
C5_Witness ==
    /\ last.op = "shallow"
    /\ last.err = <<>>
    /\ last.ret.stage = "Deserialized"
    /\ cache # EmptyDict
    /\ CleanAssetName(last.arg) \notin DOMAIN cache

(* C2.  clean_asset_name is idempotent: whenever cleaning a raw name made   *)
(* of segments, '/' and '\' separators and an optional '.Class' suffix     *)
(* returns a name, cleaning that name again returns it unchanged.          *)
C2_CleanIdempotent ==
    (npc = "twice" /\ ~Contains(rawName, SPACE) /\ clean2 \notin Errors) => clean2 = clean1

-----------------------------------------------------------------------------
(* C6.  get_name_from_id never fails: in every resolver variant a query    *)
(* with an id that is not registered returns that id unchanged.            *)
C6_NameFromIdNeverFails ==
    (answer.op = "name_from_id" /\ answer.arg \notin RegisteredIds) => answer.ret = answer.arg

(* C7.  get_id_from_name fails with ModNotFound when absent: in every      *)
(* resolver variant a query with a name registered under no letter case    *)
(* ends with ModNotFound.                                                  *)
C7_IdFromNameNotFound ==
    (/\ answer.op = "id_from_name"
     /\ Lower(answer.arg) \notin {Lower(n) : n \in RegisteredNames})
        => answer.ret = ModNotFound

(* C8.  Mod identity round trip: for every (id, name) pair the resolver    *)
(* was initialised from, idFromName(nameFromId(id)) = id and               *)
(* nameFromId(idFromName(name)) = name.                                    *)
C8_RoundTrip ==
    /\ (answer.op = "id_name_id" /\ answer.arg \in RegisteredIds) => answer.ret = answer.arg
    /\ (answer.op = "name_id_name" /\ answer.arg \in RegisteredNames) => answer.ret = answer.arg

-----------------------------------------------------------------------------
(* The container decoder, under SpecUnpack.                                 *)

\* the bytes of the first k chunks of the packed buffer
FirstChunks(k) == SubSeq(input.buffer, 1, Min(k * input.size, Len(input.buffer)))

\* C9: a buffer packed per the container layout into n chunks (n from 0 to
\* MaxBuf, so 1, 2 and 7; every chunk of the nominal size but a possibly
\* shorter last one) is unpacked without an error; the destination holds the
\* chunks decoded so far in chunk order, grows by exactly one chunk per turn,
\* and holds exactly the original bytes when the call returns.
C9_ContainerRoundTrip ==
    (upc # "idle" /\ input.damage = NoDamage) =>
        /\ upc # "failed"
        /\ upc \in {"start", "table"} => dst = NoFile
        /\ upc \in {"chunks", "done"} =>
              /\ Len(chunkSizes) = NumChunks(input.buffer, input.size)
              /\ dst = FirstChunks(chunkNo)
        /\ upc = "done" => dst = input.buffer

C9_Witness ==
    /\ upc = "done"
    /\ input.damage = NoDamage
    /\ Len(chunkSizes) = 7
    /\ chunkNo = 7
    /\ {input.buffer[j] : j \in 1..Len(input.buffer)} = {0, 1}
    /\ dst = input.buffer

\* C10: every failed integrity check ends the call with DecompressionError:
\* no call gets past the header with a token other than the magic token, past
\* the descriptor table with sizes that do not sum to the header total, or
\* past a chunk whose decoded length is not the declared one or (for a chunk
\* that is not the last) not the nominal one; and a call that a check ended,
\* ended with DecompressionError.
C10_FailedCheckIsCorruption ==
    /\ upc \in {"table", "chunks", "done"} => token = MagicToken
    /\ upc \in {"chunks", "done"} =>
          /\ sizeFound = sizeUnpacked
          /\ Len(dst) = Sum([k \in 1..chunkNo |-> chunkSizes[k][2]])
          /\ \A k \in 1..chunkNo :
                k < Len(chunkSizes) => chunkSizes[k][2] = sizeUnpackedChunk
    /\ ucheck # "none" => upc = "failed" /\ uerr = DecompressionErr

\* C11: a call that fails leaves no decoded bytes in the destination: after a
\* failed token or descriptor-sum check the destination was never opened and
\* no cell past the descriptor table was read, and after a failure at chunk k
\* the destination does not hold the output of the chunks before k.
C11_FailureLeavesNoOutput ==
    upc = "failed" =>
        /\ dst \in {NoFile, <<>>}
        /\ ucheck \in {"magic", "sum"} =>
              /\ dst = NoFile
              /\ upos <= 4 + 2 * Len(chunkSizes)

-----------------------------------------------------------------------------
(* The key-value parser, under SpecAcf.                                     *)

\* the lines the loop has taken
LinesTaken == SubSeq(acfLines, 1, acfLine)

\* is the line an entry `key value`
IsEntry(raw) == raw # <<>> /\ Len(SplitOnce(Strip(raw, Whitespace))) = 2

\* The brace structure of a run of lines: the names of the sections that are
\* open after them, outermost first.  A bare token is the pending name, `{`
\* opens a section under the pending name, `}` closes the innermost one.
RECURSIVE OpenAfter(_, _, _)
OpenAfter(lines, open, pending) ==
    IF lines = <<>> THEN open
    ELSE LET line == Strip(Head(lines), Whitespace)
         IN  IF Len(SplitOnce(line)) = 2 THEN OpenAfter(Tail(lines), open, pending)
             ELSE IF line = <<"{">> THEN OpenAfter(Tail(lines), Append(open, pending), pending)
             ELSE IF line = <<"}">>
             THEN OpenAfter(Tail(lines), SubSeq(open, 1, Len(open) - 1), pending)
             ELSE OpenAfter(Tail(lines), open, Unquote(line))

OpenSections == OpenAfter(LinesTaken, <<>>, <<>>)

\* C12: the output mirrors the brace structure: whenever the next line is an
\* entry, the dict it is stored in (the current section) is the dict of the
\* innermost open section, so after the closing brace of a child the parent;
\* and the example document yields {"Root": {"A": "1", "Child": {"B": "2"}}}.
C12_EntryInInnermostOpenSection ==
    /\ (apc = "run" /\ acfLine < Len(acfLines) /\ IsEntry(acfLines[acfLine + 1])) =>
          LET w == WalkSections(acfHeap, 1, OpenSections)
          IN  w.err = <<>> => currentSection = w.at
    /\ (apc = "done" /\ acfLines = ExampleDocument) =>
          /\ DOMAIN acfHeap[1] = {<<"Root">>}
          /\ LET root == acfHeap[acfHeap[1][<<"Root">>].ref]
             IN  /\ DOMAIN root = {<<"A">>, <<"Child">>}
                 /\ root[<<"A">>] = Text(<<"1">>)
                 /\ root[<<"Child">>].ref # 0
                 /\ acfHeap[root[<<"Child">>].ref] = (<<"B">> :> Text(<<"2">>))

\* C13: unbalanced brackets are an error: no document is returned for a text
\* that ends, or reaches its first empty line, while a section is still open.
C13_UnbalancedNotReturned ==
    apc = "done" => OpenSections = <<>>

-----------------------------------------------------------------------------
(* The string reader, under SpecReader.                                     *)

\* the call is over
Returned == rpc \in {"done", "failed"}

\* the stream began with a whole length field
HasLength == Len(rdata) >= 4

\* the length field, when its two high bytes are zero
ShortLength == rdata[1] + 256 * rdata[2]

\* C15: a length field whose sign bit is set (its last byte is 128 or more,
\* the value read unsigned 2^31 or more) is rejected as an unsupported wide
\* text: the call raises ValueError and has read the four length bytes only.
C15_WideLengthRejected ==
    (Returned /\ HasLength /\ rdata[4] >= 128) =>
        /\ rpc = "failed"
        /\ rerr = ValueErr
        /\ rpos = 4

\* the bytes are one-byte characters only
IsPlainText(data) == \A i \in 1..Len(data) : data[i] < 128

\* C16 as stated: length 0 gives None, no error, four bytes read; a length
\* n > 0 takes exactly n bytes and gives their text without the terminator,
\* so that length 5 over "abc\0?" gives "abc".
C16_LengthZeroAndTerminator ==
    /\ (Returned /\ HasLength /\ ReadUInt32(rdata) = [lo |-> 0, hi |-> 0]) =>
          rpc = "done" /\ rret = None /\ rpos = 4
    /\ (Returned /\ rdata = ExampleRecord) =>
          rpc = "done" /\ rpos = 9 /\ rret = <<"a", "b", "c">>

\* C16 amended: length 0 gives None, no error, four bytes read; a length
\* n > 0 over at least n bytes of one-byte characters takes exactly n bytes
\* and gives their text less the last character only: length 5 over "abc\0?"
\* gives "abc\0", length 4 over "abc\0" gives "abc".
C16_LastCharacterTrimmed ==
    /\ (Returned /\ HasLength /\ ReadUInt32(rdata) = [lo |-> 0, hi |-> 0]) =>
          rpc = "done" /\ rret = None /\ rpos = 4
    /\ (/\ Returned /\ HasLength /\ rdata[3] = 0 /\ rdata[4] = 0
        /\ ShortLength > 0 /\ ShortLength <= Len(rdata) - 4
        /\ IsPlainText(SubSeq(rdata, 5, 4 + ShortLength))) =>
          /\ rpc = "done"
          /\ rpos = 4 + ShortLength
          /\ Len(rret) = ShortLength - 1
          /\ \A i \in 1..(ShortLength - 1) : rret[i] = Char(rdata[4 + i])
    /\ (Returned /\ rdata = ExampleRecord) =>
          rpc = "done" /\ rpos = 9 /\ rret = <<"a", "b", "c", "NUL">>
    /\ (Returned /\ rdata = <<4, 0, 0, 0, 97, 98, 99, 0>>) =>
          rpc = "done" /\ rpos = 8 /\ rret = <<"a", "b", "c">>

C16_Witness ==
    /\ rpc = "done"
    /\ rdata = ExampleRecord
    /\ rpos = 9
    /\ rret = <<"a", "b", "c", "NUL">>

-----------------------------------------------------------------------------
(* Paths, under SpecPath.                                                   *)

\* the segments of a cleaned name
Segments(name) == Split(Strip(name, {SLASH}), SLASH)

\* the name has a mod segment: it is under <root>/Mods/<segment>
HasModSegment(name) == Len(Segments(name)) > 2 /\ Lower(Segments(name)[2]) = <<"mods">>

\* C17: for every canonical name c without a mod segment (c a fixed point of
\* clean), the path of c below the asset root, without extension, cleans
\* back to c.
C17_PathRoundTrip ==
    (npc = "back" /\ clean1 = rawName /\ ~HasModSegment(rawName)) => clean2 = rawName

-----------------------------------------------------------------------------
(* Mod paths, under SpecMod.                                                *)

\* the segments of a name as given: class name dropped, separators tidied
GivenSegments(name) == Split(TidySlashes(DropClassName(name)), SLASH)

\* the name is under /Game/Mods/<segment> (Content standing for Game)
UnderGameMods(name) ==
    /\ Len(GivenSegments(name)) >= 3
    /\ Lower(GivenSegments(name)[1]) \in {<<"game">>, <<"content">>}
    /\ Lower(GivenSegments(name)[2]) = <<"mods">>

\* C18: get_mod_id and get_mod_name return None, and raise nothing, for every
\* name with fewer than three segments or not under /Game/Mods/; under
\* /Game/Mods/<segment> they return the id and the alias of the segment: for
\* the registered mod (123, MyMod) the id 123 and the alias MyMod whichever
\* of the two the segment is, and get_mod_id returns a numeric segment as it
\* is.
C18_ModPathDetection ==
    answer.op \in {"get_mod_id", "get_mod_name"} =>
        LET seg == GivenSegments(answer.arg)[3]
        IN  /\ ~UnderGameMods(answer.arg) => answer.ret = None
            /\ (UnderGameMods(answer.arg) /\ seg \in {<<"123">>, <<"MyMod">>}) =>
                  answer.ret = IF answer.op = "get_mod_id" THEN <<"123">> ELSE <<"MyMod">>
            /\ (UnderGameMods(answer.arg) /\ IsNumeric(seg) /\ answer.op = "get_mod_id") =>
                  answer.ret = seg

-----------------------------------------------------------------------------
(* Specification SpecClass: classes are looked up by qualified name.       *)

NO_FALLBACK == <<"#NO_FALLBACK">>       \* the sentinel object of line 29
SomeFallback == <<"#fallback">>         \* an object a caller passes as fallback
Fallbacks == {NO_FALLBACK, None, SomeFallback}

NoExport == [asset |-> 0, index |-> 0, name |-> <<>>]

DEFAULT == "Default__"                  \* the prefix tested in line 320

\* asset.exports: the names of the objects the file defines, in table order
ExportTable(asset) ==
    IF asset.assetname = <<SLASH, "Game", SLASH, "Foo">>
    THEN << <<"Foo_C">>, <<DEFAULT, "Foo_C">>, <<"Foo_C">> >>
    ELSE IF asset.assetname = <<SLASH, "Game", SLASH, "Map">>
    THEN << <<"PersistentLevel">>, <<DEFAULT, "A">>, <<DEFAULT, "B">> >>
    ELSE << <<"Foo_C">> >>

\* lines 258-260: the first export whose name is cls_name, or NoExport
FindExport(asset, cls_name) ==
    LET table == ExportTable(asset)
        hits == {i \in DOMAIN table : table[i] = cls_name}
    IN  IF hits = {} THEN NoExport
        ELSE With(CHOOSE i \in hits : \A j \in hits : i <= j, LAMBDA first :
                 [asset |-> asset.id, index |-> first, name |-> table[first]])

\* lines 258-265 with "if fallback is not None" for the sentinel test
ClassResult_NoneIsAbsent(call, cls_name, fallback) ==
    IF call.err # <<>>
    THEN [kind |-> "raise", err |-> call.err, asset |-> NoAsset, export |-> NoExport,
          value |-> None]
    ELSE With(FindExport(call.ret, cls_name), LAMBDA export :
        IF export # NoExport
        THEN [kind |-> "export", err |-> <<>>, asset |-> call.ret, export |-> export,
              value |-> None]
        ELSE IF fallback \notin {NO_FALLBACK, None}
        THEN [kind |-> "fallback", err |-> <<>>, asset |-> call.ret, export |-> NoExport,
              value |-> fallback]
        ELSE [kind |-> "raise", err |-> KeyErr, asset |-> call.ret, export |-> NoExport,
              value |-> None])

\* lines 257-265 of load_class, after self[assetname] ended as call records:
\* what load_class returns or raises, and the asset it searched
ClassResult(call, cls_name, fallback) ==
    IF call.err # <<>>
    THEN [kind |-> "raise", err |-> call.err, asset |-> NoAsset, export |-> NoExport,
          value |-> None]
    ELSE With(FindExport(call.ret, cls_name), LAMBDA export :
        IF export # NoExport
        THEN [kind |-> "export", err |-> <<>>, asset |-> call.ret, export |-> export,
              value |-> None]
        ELSE IF fallback # NO_FALLBACK
        THEN [kind |-> "fallback", err |-> <<>>, asset |-> call.ret, export |-> NoExport,
              value |-> fallback]
        ELSE [kind |-> "raise", err |-> KeyErr, asset |-> call.ret, export |-> NoExport,
              value |-> None])

\* a call of load_class that raised before it reached the loader
Raised(err) ==
    [kind |-> "raise", err |-> err, asset |-> NoAsset, export |-> NoExport, value |-> None]

\* AssetLoader.load_class(fullname, fallback)
LoadClass(fullname, fallback) ==
    /\ UNCHANGED <<resolverVars, cleanVars, toolVars>>
    /\ \E parts \in {Split(fullname, DOT)} :
         IF Len(parts) # 2
         THEN /\ answer' = [op |-> "load_class", arg |-> <<fullname, fallback>>,
                            ret |-> Raised(ValueErr)]
              /\ UNCHANGED loaderVars
         ELSE \E assetname \in {CleanAssetName(parts[1])} :
                IF assetname \in Errors
                THEN /\ answer' = [op |-> "load_class", arg |-> <<fullname, fallback>>,
                                   ret |-> Raised(assetname)]
                     /\ UNCHANGED loaderVars
                ELSE /\ GetItem(assetname)
                     /\ answer' = [op |-> "load_class", arg |-> <<fullname, fallback>>,
                                   ret |-> ClassResult(last', parts[2], fallback)]

\* The qualified names callers ask for
FullNames == {
    <<SLASH, "Game", SLASH, "Foo", DOT, "Foo_C">>,
    <<SLASH, "Game", SLASH, "Foo", DOT, "foo_c">>,
    <<SLASH, "Game", SLASH, "Map", DOT, "PersistentLevel">>,
    <<SLASH, "Game", SLASH, "Mods", SLASH, "999", SLASH, "Foo", DOT, "Foo_C">>,
    <<SLASH, "Game", SLASH, "Foo", DOT, "Foo", DOT, "Foo_C">>,
    <<SLASH, "Game", SLASH, "Foo">> }

NextClass == \E fullname \in FullNames, fallback \in Fallbacks : LoadClass(fullname, fallback)

SpecClass == Init /\ [][NextClass]_vars

\* C19: load_class("<assetPath>.<exportName>", fallback) returns the export
\* whose name equals exportName exactly; when the asset loads and no export
\* matches, it returns fallback if one was supplied, a supplied None
\* included, and fails with NotFound only when no fallback was supplied.
C19_LoadClass ==
    answer.op = "load_class" =>
        LET fullname == answer.arg[1]
            fallback == answer.arg[2]
            r == answer.ret
            parts == Split(fullname, DOT)
        IN  (Len(parts) = 2 /\ r.asset # NoAsset) =>
                LET exportName == parts[2]
                    table == ExportTable(r.asset)
                    matches == {i \in DOMAIN table : table[i] = exportName}
                IN  /\ matches # {} =>
                          /\ r.kind = "export"
                          /\ r.export.asset = r.asset.id
                          /\ r.export.index \in matches
                          /\ r.export.name = exportName
                    /\ (matches = {} /\ fallback # NO_FALLBACK) =>
                          r.kind = "fallback" /\ r.value = fallback
                    /\ (matches = {} /\ fallback = NO_FALLBACK) =>
                          r.kind = "raise" /\ r.err = KeyErr
                    /\ r.kind = "raise" => fallback = NO_FALLBACK

\* load_class found no export of that name and returned the None it was given
C19_Witness ==
    /\ answer.op = "load_class"
    /\ answer.arg[2] = None
    /\ answer.ret.asset # NoAsset
    /\ answer.ret.kind = "fallback"
    /\ answer.ret.value = None

\* C20: retrieve looks for the asset file under .uasset first and under
\* .umap only if the .uasset file is absent; it fails with AssetNotFound,
\* and reads no file, when neither exists.
C20_PrimaryThenSecondary ==
    [][(last'.op = "retrieve" /\ last' # last) =>
         With(CleanAssetName(last'.arg), LAMBDA cleaned :
             (cleaned \notin Errors /\ Lookup(cache, cleaned) = NoAsset) =>
                 With(<<ConvertAssetNameToPath(cleaned, UASSET),
                        ConvertAssetNameToPath(cleaned, UMAP)>>, LAMBDA path :
                     LET primary == path[1]
                         secondary == path[2]
                     IN  (primary \notin Errors /\ secondary \notin Errors) =>
                            /\ IsFile(primary) => last'.file = primary
                            /\ (~IsFile(primary) /\ IsFile(secondary)) =>
                                  last'.file = secondary
                            /\ (~IsFile(primary) /\ ~IsFile(secondary)) =>
                                  /\ last'.err = AssetNotFound
                                  /\ last'.file = <<>>
                                  /\ cache' = cache
                                  /\ created' = created))]_vars

\* the .uasset file was absent and the asset was read from its .umap file
C20_Witness ==
    /\ last.op = "retrieve"
    /\ last.err = <<>>
    /\ last.file = <<ROOT, SLASH, "Content", SLASH, "Map", UMAP>>

-----------------------------------------------------------------------------
\* C23: every asset in the cache went through the whole lifecycle: it is
\* cached under its own name in stage Linked, and an entry is added or
\* replaced only by a retrieve that deserialised, linked and identified the
\* default object without an error; a shallow load or a failed load never
\* puts an asset in the cache.
C23_CachedAreLinked ==
    [][/\ \A k \in DOMAIN cache' :
              /\ cache'[k].stage = "Linked"
              /\ cache'[k].assetname = k
       /\ \A k \in DOMAIN cache' :
              (k \notin DOMAIN cache \/ cache[k] # cache'[k]) =>
                  /\ last'.op = "retrieve"
                  /\ last'.err = <<>>
                  /\ last'.file # <<>>
                  /\ last'.ret = cache'[k]]_vars

\* a shallow load returned a deserialised asset of a name that a retrieve
\* had cached linked
C23_Witness ==
    /\ last.op = "shallow"
    /\ last.err = <<>>
    /\ last.ret.stage = "Deserialized"
    /\ last.arg \in DOMAIN cache
    /\ cache[last.arg].stage = "Linked"

\* C28: del loader[name] for a name that is not in the cache leaves the
\* cache as it was, whether the call returns or raises.
C28_InvalidateAbsentKeepsCache ==
    [][last'.op = "invalidate" =>
          With(CleanAssetName(last'.arg), LAMBDA cleaned :
              (cleaned \in Errors \/ cleaned \notin DOMAIN cache) => cache' = cache)]_vars

\* a name that is not cached was invalidated while another asset is cached
C28_Witness ==
    /\ last.op = "invalidate"
    /\ last.err = KeyErr
    /\ cache # EmptyDict

\* C24: names that address the same file share one cache entry: no two
\* names of the cache address one file.
C24_OneEntryPerFile ==
    \A k1, k2 \in DOMAIN cache :
        LoadRawAsset(k1).file = LoadRawAsset(k2).file => k1 = k2

-----------------------------------------------------------------------------
\* C27: unpackModFile terminates on every finite input: the loop over the
\* descriptors ends, with the table complete or with an error, also when
\* descriptors declare a size of 0 or the sum overshoots the header total,
\* and the call as a whole ends.
C27_Terminates ==
    /\ (upc = "table") ~> (upc \in {"chunks", "failed"})
    /\ <>(upc \in {"done", "failed"})

\* a descriptor of size 0 was read, the loop went on and ended when the
\* running total overshot the header total
C27_Witness ==
    /\ upc = "failed"
    /\ ucheck = "sum"
    /\ sizeFound > sizeUnpacked
    /\ \E i \in DOMAIN chunkSizes : chunkSizes[i][2] = 0

-----------------------------------------------------------------------------
(* Specification SpecGraph: a caller retrieves assets and follows their    *)
(* references with load_related.                                           *)

MaxTrail == 3       \* assets a caller follows in one chain of references

\* asset.imports: the assets the import-table entries of an asset name
\* (str(obj.namespace.value.name.value) of each entry)
ImportTable(asset) ==
    IF asset.assetname = <<SLASH, "Game", SLASH, "Foo">>
    THEN << <<SLASH, "Game", SLASH, "Map">> >>
    ELSE IF asset.assetname = <<SLASH, "Game", SLASH, "Map">>
    THEN << <<SLASH, "Game", SLASH, "Foo">>, <<SLASH, "Game", SLASH, "Gone">> >>
    ELSE << <<"Content", SLASH, "Foo">> >>

\* line 320: the exports whose name starts with 'Default__', in table order
DefaultCandidates(asset) ==
    LET table == ExportTable(asset)
    IN  SelectSeq([i \in DOMAIN table |-> i], LAMBDA i : StartsWith(table[i], <<DEFAULT>>))

\* lines 320-324 with exports[-1] kept
IdentifyDefault_Last(asset) ==
    With(DefaultCandidates(asset), LAMBDA exports :
        [warn |-> Len(exports) > 1,
         export |-> IF exports = <<>> THEN NoExport
                    ELSE [asset |-> asset.id, index |-> exports[Len(exports)],
                          name |-> ExportTable(asset)[exports[Len(exports)]]]])

\* lines 320-324: whether warnings.warn is called, and asset.default_export
IdentifyDefault(asset) ==
    With(DefaultCandidates(asset), LAMBDA exports :
        [warn |-> Len(exports) > 1,
         export |-> IF exports = <<>> THEN NoExport
                    ELSE [asset |-> asset.id, index |-> exports[1],
                          name |-> ExportTable(asset)[exports[1]]]])

\* What lines 320-324 leave behind when loader[...] ended as last' records:
\* the lines run when the file was read, deserialised and linked
Identified(cleaned) ==
    /\ defaults' = IF last'.file # <<>> /\ last'.err = <<>>
                   THEN Append(defaults, IdentifyDefault(last'.ret).export)
                   ELSE defaults
    /\ warnings' = IF /\ last'.file # <<>>
                      /\ last'.err \in {<<>>, DefaultErr}
                      /\ IdentifyDefault([NoAsset EXCEPT !.assetname = cleaned]).warn
                   THEN <<cleaned>>
                   ELSE <<>>

\* loader[assetname], called by the code that walks the assets
Fetch(assetname) ==
    /\ GetItem(assetname)
    /\ Identified(CleanAssetName(assetname))
    /\ trail' = IF last'.err = <<>> THEN <<last'.ret.assetname>> ELSE <<>>
    /\ answer' = [op |-> "fetch", arg |-> assetname, ret |-> <<>>]
    /\ UNCHANGED <<resolverVars, cleanVars, unpackVars, acfVars, readerVars>>

\* The nodes handed to load_related: a leaf (an import-table entry of an
\* asset, naming another asset; an export-table entry; a value that refers
\* to nothing) inside wrappers, the outermost first
Wraps == {
    <<>>,
    <<"Property">>,
    <<"ObjectProperty">>,
    <<"Property", "ObjectProperty">>,
    <<"ObjectIndex">> }

Leaves(c) ==
    UNION {{[leaf |-> "ImportTableItem", owner |-> k, target |-> ImportTable(c[k])[i]] :
               i \in DOMAIN ImportTable(c[k])} : k \in DOMAIN c}
    \cup {[leaf |-> "ExportTableItem", owner |-> k, target |-> <<>>] : k \in DOMAIN c}
    \cup {[leaf |-> "IntProperty", owner |-> <<>>, target |-> <<>>]}

Nodes(c) == {[wrap |-> w, leaf |-> l.leaf, owner |-> l.owner, target |-> l.target] :
                w \in Wraps, l \in Leaves(c)}

\* lines 242-245 without the ObjectProperty rule
Related_PropertyOnly(obj) ==
    LET firstOther == CHOOSE i \in 1..(Len(obj.wrap) + 1) :
                          /\ \A j \in 1..(i - 1) : obj.wrap[j] = "Property"
                          /\ i <= Len(obj.wrap) => obj.wrap[i] # "Property"
    IN  [obj EXCEPT !.wrap = SubSeq(obj.wrap, firstOther, Len(obj.wrap))]

\* lines 242-245: the node the recursion of load_related ends at.  A
\* Property is followed to obj.value, an ObjectProperty to obj.value.value
RECURSIVE Related(_)
Related(obj) ==
    IF obj.wrap # <<>> /\ Head(obj.wrap) \in {"Property", "ObjectProperty"}
    THEN Related([obj EXCEPT !.wrap = Tail(obj.wrap)])
    ELSE obj

\* lines 246-250 apply to it
IsImport(obj) == obj.wrap = <<>> /\ obj.leaf = "ImportTableItem"

\* the chain of assets after a reference from owner led to the asset named
Followed(owner, name) ==
    IF trail # <<>> /\ trail[Len(trail)] = owner
    THEN Append(trail, name)
    ELSE <<owner, name>>

\* AssetLoader.load_related(obj)
LoadRelated(obj) ==
    /\ \E node \in {Related(obj)} :
         IF IsImport(node)
         THEN /\ Len(trail) < MaxTrail
              /\ GetItem(node.target)
              /\ Identified(CleanAssetName(node.target))
              /\ trail' = IF last'.err = <<>>
                          THEN Followed(node.owner, last'.ret.assetname)
                          ELSE trail
              /\ answer' = [op |-> "load_related", arg |-> obj,
                            ret |-> [err |-> last'.err, asset |-> last'.ret]]
         ELSE /\ answer' = [op |-> "load_related", arg |-> obj,
                            ret |-> [err |-> ValueErr, asset |-> NoAsset]]
              /\ warnings' = <<>>
              /\ UNCHANGED <<loaderVars, trail, defaults>>
    /\ UNCHANGED <<resolverVars, cleanVars, unpackVars, acfVars, readerVars>>

\* The names the walking code starts from
GraphNames == {
    <<SLASH, "Game", SLASH, "Foo">>,
    <<SLASH, "Game", SLASH, "Map">>,
    <<SLASH, "Game", SLASH, "Mods", SLASH, "123", SLASH, "Foo">> }

InitGraph ==
    /\ ResolverReady(LoaderMods, <<>>) /\ resolver = "managed"
    /\ answer = NoAnswer
    /\ CleanIdle
    /\ LoaderFresh
    /\ UnpackIdle
    /\ AcfIdle
    /\ ReaderIdle
    /\ GraphIdle

NextGraph ==
    \/ \E assetname \in GraphNames : Fetch(assetname)
    \/ \E obj \in Nodes(cache) : LoadRelated(obj)

SpecGraph == InitGraph /\ [][NextGraph]_vars

\* the wrapper layers of a node are all layers load_related follows
Traversable(obj) == \A i \in DOMAIN obj.wrap : obj.wrap[i] \in {"Property", "ObjectProperty"}

\* C21: load_related follows a property value or an object reference down
\* to an import-table entry and retrieves the exporting asset through the
\* cache-backed retrieve of the loader; for every other kind of node it
\* fails with the Unsupported error (ValueError) and loads nothing.
C21_LoadRelated ==
    [][answer'.op = "load_related" =>
          LET obj == answer'.arg
              r == answer'.ret
          IN  IF Traversable(obj) /\ obj.leaf = "ImportTableItem"
              THEN With(CleanAssetName(obj.target), LAMBDA cleaned :
                      /\ last'.op = "retrieve" /\ last'.arg = obj.target
                      /\ r.err = last'.err /\ r.asset = last'.ret
                      /\ r.err # ValueErr
                      /\ cleaned \in DOMAIN cache =>
                            r.err = <<>> /\ r.asset = cache[cleaned] /\ last'.file = <<>>
                      /\ r.err = <<>> =>
                            r.asset.assetname = cleaned /\ cache'[cleaned] = r.asset)
              ELSE /\ r.err = ValueErr /\ r.asset = NoAsset
                   /\ cache' = cache /\ created' = created /\ last' = last]_vars

\* an import-table entry inside an object reference inside a property led
\* to an asset that was read from its file
C21_Witness ==
    /\ answer.op = "load_related"
    /\ answer.arg.wrap = <<"Property", "ObjectProperty">>
    /\ answer.arg.leaf = "ImportTableItem"
    /\ answer.ret.err = <<>>
    /\ last.file # <<>>

\* C25: the default object of a loaded asset is the first export, in table
\* order, whose name starts with 'Default__', or none when there is none;
\* with more than one such export a warning is issued, the first is kept
\* and the asset is cached all the same.
C25_DefaultObject ==
    [][(last' # last /\ last'.op = "retrieve" /\ last'.file # <<>> /\ last'.err = <<>>) =>
          LET asset == last'.ret
              table == ExportTable(asset)
              named == {i \in DOMAIN table : StartsWith(table[i], <<DEFAULT>>)}
              kept == defaults'[asset.id]
          IN  /\ Len(defaults') = asset.id
              /\ named = {} => kept = NoExport /\ warnings' = <<>>
              /\ named # {} =>
                    /\ kept.asset = asset.id
                    /\ kept.index \in named
                    /\ \A i \in named : kept.index <= i
                    /\ kept.name = table[kept.index]
              /\ Cardinality(named) = 1 => warnings' = <<>>
              /\ Cardinality(named) > 1 => warnings' = <<asset.assetname>>
              /\ Lookup(cache', asset.assetname) = asset]_vars

\* an asset with two 'Default__' exports was loaded with a warning, and is
\* cached with the first of them as its default object
C25_Witness ==
    /\ last.op = "retrieve" /\ last.err = <<>> /\ last.file # <<>>
    /\ warnings = <<last.ret.assetname>>
    /\ Lookup(cache, last.ret.assetname) = last.ret
    /\ defaults[last.ret.id].index = 2

\* C26: loading terminates on a cyclic reference graph: retrieve detects
\* the cycle and reports a load error, so no chain of references a caller
\* follows comes back to an asset it went through.
C26_CycleIsLoadError ==
    \A i, j \in DOMAIN trail : trail[i] = trail[j] => i = j

-----------------------------------------------------------------------------
(* Specification SpecFind: find_assetnames is called over a directory     *)
(* tree, and the generator it returns is run to its end.                   *)

ANY == ".*"

\* The files os.walk comes by under the asset root, in its order
Tree == <<
    <<ROOT, SLASH, "Content", SLASH, "Foo", UASSET>>,
    <<ROOT, SLASH, "Content", SLASH, "Bar", ".UASSET">>,
    <<ROOT, SLASH, "Content", SLASH, "Map", UMAP>>,
    <<ROOT, SLASH, "Content", SLASH, "Notes", ".txt">>,
    <<ROOT, SLASH, "Content", SLASH, "Mods", SLASH, "123", SLASH, "Foo", UASSET>>,
    <<ROOT, SLASH, "Content", SLASH, "Mods", SLASH, "123", SLASH, "Foo", UMAP>> >>

\* s[i:].startswith(text), i counted from 1
HasAt(s, text, i) ==
    i + Len(text) - 1 <= Len(s) /\ SubSeq(s, i, i + Len(text) - 1) = text

\* re.match(pattern, s) is not None, for patterns that are literal text
\* (matched at the start of s) or '.*' followed by literal text
ReMatch(pattern, s) ==
    IF pattern # <<>> /\ pattern[1] = ANY
    THEN \E i \in 1..(Len(s) + 1) : HasAt(s, Tail(pattern), i)
    ELSE StartsWith(s, pattern)

\* An argument that is None, one str (value holds just that str), or a
\* list of str
NoArg == [type |-> "none", value |-> <<>>]
Str(v) == [type |-> "str", value |-> <<v>>]
List(v) == [type |-> "list", value |-> v]

\* line 213: tuple(exclude, ) of a str is the tuple of its characters
Excludes(exclude) ==
    IF exclude.type = "str"
    THEN [i \in 1..Len(exclude.value[1]) |-> <<exclude.value[1][i]>>]
    ELSE exclude.value

\* lines 214-215: tuple((extension, )) of a str, every entry lower-cased
Extensions(extension) ==
    IF extension.type = "str" THEN Lower(<<extension.value[1]>>)
    ELSE Lower(extension.value)

\* os.walk(toppath): the files of the tree under the directory toppath
UnderTop(fullpath, toppath) == StartsWith(fullpath, RStrip(toppath, {SLASH}) \o <<SLASH>>)

\* lines 220-221: os.path.splitext(fullpath)
SplitExt(fullpath) ==
    [name |-> SubSeq(fullpath, 1, Len(fullpath) - 1), ext |-> fullpath[Len(fullpath)]]

\* lines 230-231: the asset name of a file
AssetNameOf(fullpath) == CleanAssetName(RelativeToRoot(SplitExt(fullpath).name))

\* lines 219-239 for one file: the name yielded, None when the file is
\* skipped, or the exception that ends the generator
Yielded(fullpath, regex, excludes, extensions) ==
    IF ~Contains(extensions, LowerAtom(SplitExt(fullpath).ext)) THEN None
    ELSE IF ~ReMatch(regex, SplitExt(fullpath).name) THEN None
    ELSE With(AssetNameOf(fullpath), LAMBDA assetname :
             IF assetname \in Errors THEN assetname
             ELSE IF \E i \in DOMAIN excludes : ReMatch(excludes[i], assetname) THEN None
             ELSE assetname)

\* lines 217-239: what the generator yields over files, after done was
\* yielded: [names, err]
RECURSIVE Walk(_, _, _, _, _)
Walk(files, done, regex, excludes, extensions) ==
    IF files = <<>> THEN [names |-> done, err |-> <<>>]
    ELSE With(Yielded(Head(files), regex, excludes, extensions), LAMBDA y :
             IF y \in Errors THEN [names |-> done, err |-> y]
             ELSE Walk(Tail(files), IF y = None THEN done ELSE Append(done, y),
                       regex, excludes, extensions))

\* AssetLoader.find_assetnames(regex, toppath, exclude, extension), run to
\* its end
FindAssetnames(regex, toppath, exclude, extension) ==
    With(ConvertName(toppath, TRUE, UASSET), LAMBDA top :
        IF top \in Errors THEN [names |-> <<>>, err |-> top]
        ELSE Walk(SelectSeq(Tree, LAMBDA f : UnderTop(f, top)), <<>>,
                  regex, Excludes(exclude), Extensions(extension)))

\* list(loader.find_assetnames(regex, toppath, exclude, extension)), the one
\* call made on the loader
CallFindAssetnames(regex, toppath, exclude, extension) ==
    /\ answer = NoAnswer
    /\ answer' = [op |-> "find", arg |-> <<regex, toppath, exclude, extension>>,
                  ret |-> FindAssetnames(regex, toppath, exclude, extension)]
    /\ UNCHANGED <<resolverVars, cleanVars, loaderVars, toolVars>>

Regexes == {
    <<ANY>>,
    <<ANY, "Foo">>,
    <<ANY, SLASH, "Mods", SLASH>>,
    <<SLASH, "Game", SLASH, "Foo">> }

TopPaths == {
    <<SLASH>>,
    <<SLASH, "Game">>,
    <<SLASH, "Game", SLASH, "Mods">> }

ExcludePatterns == {
    <<SLASH, "Game", SLASH, "Mods", SLASH>>,
    <<ANY, "Foo">> }

ExcludeArgs ==
    {NoArg} \cup {Str(p) : p \in ExcludePatterns} \cup {List(<<p>>) : p \in ExcludePatterns}
        \cup {List(<<>>), List(<<(<<ANY, "Map">>), (<<ANY, "Bar">>)>>)}

ExtensionArgs == {Str(UASSET), Str(".UMAP"), List(<<UASSET>>), List(<<UASSET, UMAP>>)}

InitFind ==
    /\ ResolverReady(LoaderMods, <<>>)
    /\ answer = NoAnswer
    /\ CleanIdle
    /\ LoaderFresh
    /\ UnpackIdle
    /\ AcfIdle
    /\ ReaderIdle
    /\ GraphIdle

NextFind ==
    \E regex \in Regexes, toppath \in TopPaths, exclude \in ExcludeArgs,
       extension \in ExtensionArgs :
        CallFindAssetnames(regex, toppath, exclude, extension)

SpecFind == InitFind /\ [][NextFind]_vars

\* the patterns and the extensions a caller named, a str being one of them
Named(arg) == {arg.value[i] : i \in DOMAIN arg.value}

\* the canonical name of a file: the path below Content with /Game in front
\* and a mod id replaced by the mod's name
CanonicalOf(fullpath) == CleanAssetName(RelativeToRoot(SplitExt(fullpath).name))

\* the directory a top path names
TopOf(toppath) == ConvertName(toppath, TRUE, UASSET)

\* C22: find_assetnames yields exactly the canonical names of the files
\* under the top path whose extension is accepted (in any letter case),
\* whose canonical name matches the pattern and whose canonical name
\* matches no exclude pattern, each file once.  (Stated for excludes given
\* as a list or not at all.)
C22_FindYieldsExactly ==
    (answer.op = "find" /\ answer.arg[3].type # "str") =>
        LET regex == answer.arg[1]
            toppath == answer.arg[2]
            wanted == SelectSeq(Tree, LAMBDA f :
                         /\ UnderTop(f, TopOf(toppath))
                         /\ \E ext \in Named(answer.arg[4]) :
                                LowerAtom(ext) = LowerAtom(SplitExt(f).ext)
                         /\ ReMatch(regex, CanonicalOf(f))
                         /\ \A p \in Named(answer.arg[3]) : ~ReMatch(p, CanonicalOf(f)))
        IN  /\ answer.ret.err = <<>>
            /\ answer.ret.names = [i \in DOMAIN wanted |-> CanonicalOf(wanted[i])]

\* C29: an exclude given as one string gives what the one-element list
\* holding that string gives.
C29_ExcludeStringIsOnePattern ==
    (answer.op = "find" /\ answer.arg[3].type = "str") =>
        answer.ret = FindAssetnames(answer.arg[1], answer.arg[2],
                                    List(answer.arg[3].value), answer.arg[4])

=============================================================================
